---- MODULE Spec2Model ----
(***************************************************************************)
(* Pose-tracking and placement pipeline of the AR architecture app.        *)
(*                                                                         *)
(*   AREngine     (src/unnamed/part_002)   visual plane tracker            *)
(*   WebXREngine  (src/unnamed/part_001)   hit-test tracker                *)
(*   SceneManager (src/src/ar/SceneManager.js)  placement and anchoring    *)
(*   ARArchitectureApp (src/src/main.js)   frame loops and commands        *)
(*                                                                         *)
(* Units.  Confidence is kept in hundredths (0.15 is 15, 0.5 is 50, 1.0 is *)
(* 100) with decimal arithmetic.  Lengths are in centimetres (the camera   *)
(* height 1.5 is 150).  Angles in radians are kept in 1/10000 rad.         *)
(***************************************************************************)
EXTENDS Integers, FiniteSets, Sequences, TLC

(***************************************************************************)
(* Program constants.                                                      *)
(***************************************************************************)
ConfidenceCap == 100
ConfidenceFloor == 0
RampStep == 15
DecayStep == 10
TrackingThreshold == 50
MinInliers == 10
MinPlanePoints == 8
HasFeaturesThreshold == 20
RatioFactor == 3
RatioFloor == 30
\* this.gpsAccuracyThreshold = 50, in metres
GpsAccuracyThreshold == 50
\* this.minDistance = 5 and this.maxDistance = 1000, in centimetres
MinDistance == 500
MaxDistance == 100000
\* R * pi / 180 for R = 6371e3: the length of a microdegree of arc, in
\* 1/10000 cm
MicroDegreeLength == 111195

(***************************************************************************)
(* Bounds of the model.                                                    *)
(***************************************************************************)
MaxVideoW == 1
KpFew == 12
KpMany == 25
BucketSize == 5
DistNear == 10
DistMid == 25
DistFar == 80
MaxHits == 2
MaxStreak == 5
\* Offsets of a target from the fix, in microdegrees: one closer than
\* minDistance and one farther than maxDistance.
TooClose == 40
TooFar == 10000
\* A GPS accuracy worse than the threshold, in metres.
PoorAccuracy == 51

Null == [kind |-> "null"]

Min(a, b) == IF a < b THEN a ELSE b
Max(a, b) == IF a > b THEN a ELSE b

\* Screen points the plane centre (mean of the tracked points) can fall on.
PlaneCenters == {<<2, 2>>, <<4, 4>>}

\* The TrackingResult every processFrame starts from.
EmptyResult ==
    [isTracking |-> FALSE, hasFeatures |-> FALSE, featureCount |-> 0,
     planeCount |-> 0, pose |-> Null, viewerTransform |-> Null]

VARIABLES
    arMode,        \* app.arMode: which backend app.arEngine is
    arEngine,      \* the fields of app.arEngine
    result,        \* the TrackingResult of the last processFrame
    tick,          \* history: what the last engine operation was
    streak,        \* history: successful detections in a row since confidence 0
    isInitialized, \* app.isInitialized
    currentModel,  \* app.currentModel
    sceneManager,  \* the fields of app.sceneManager
    cmd,           \* history: the last operation of the app and what it returned
    rafPending,    \* a callback of the frame loop is requested and not yet run
    startup,       \* where app.init() stands, and the engines it has abandoned
    native,        \* the OpenCV objects the visual tracker's fields refer to
    poseFilter     \* the six scalar filters of a PoseKalmanFilter

engineVars == <<arMode, arEngine, result, tick, streak>>
appVars == <<isInitialized, currentModel, sceneManager, cmd, rafPending>>
vars == <<arMode, arEngine, result, tick, streak,
          isInitialized, currentModel, sceneManager, cmd, rafPending,
          startup, native, poseFilter>>

(***************************************************************************)
(* AREngine: the visual plane tracker.                                     *)
(***************************************************************************)

\* Math.min(1.0, planeConfidence + 0.15)
RampNoCap(c) == c + RampStep
RampConfidence(c) == Min(ConfidenceCap, c + RampStep)

\* Math.max(0, planeConfidence - 0.1)
DecayConfidence(c) == Max(ConfidenceFloor, c - DecayStep)

\* planeConfidence > 0.5
AtLeastThreshold(c) == c >= TrackingThreshold
NoThreshold(c) == TRUE
AboveThreshold(c) == c > TrackingThreshold

\* State after the constructor and init().
AREngineInit ==
    [planeConfidence |-> 0, isTracking |-> FALSE, currentPose |-> Null,
     groundPlane |-> Null, trackedPoints |-> 0, detectedPlanes |-> 0,
     frame |-> Null, prevGrayFrame |-> Null, prevKeypoints |-> 0]

\* One video frame and what the OpenCV calls make of it.  near/mid/far are
\* the numbers of matches at the distances DistNear, DistMid and DistFar.
\* <<videoWidth, videoHeight>> of the video element.
VideoSizes ==
    {<<0, 0>>, <<0, 1>>, <<1, 0>>} \cup {<<w, 1>> : w \in 1..MaxVideoW}

VisualInputsAll ==
    [size : VideoSizes,
     exc : {"none", "capture"},
     nkp : {0, KpFew, KpMany},
     near : {0, BucketSize}, mid : {0, BucketSize}, far : {0, BucketSize},
     matchThrows : BOOLEAN,
     homThrows : BOOLEAN, ransacAccepts : BOOLEAN, Hempty : BOOLEAN,
     center : PlaneCenters]

DefaultCenter == <<2, 2>>

\* Fields that the code never reads for a frame are held at a default.
VisualCanonical(in) ==
    LET invalid == in.size[1] = 0 \/ in.size[2] = 0
        early == invalid \/ in.exc # "none"
        nomatching == early \/ in.nkp = 0 \/ in.matchThrows
        nomatches == nomatching \/ in.near + in.mid + in.far < MinInliers
        nofit == nomatches \/ in.homThrows
    IN  /\ (invalid => in.exc = "none")
        /\ (early => in.nkp = 0)
        /\ ((early \/ in.nkp = 0) => ~in.matchThrows)
        /\ (nomatching => in.near = 0 /\ in.mid = 0 /\ in.far = 0)
        /\ in.near + in.mid + in.far <= in.nkp
        /\ (nomatches => ~in.homThrows)
        /\ (nofit => in.ransacAccepts /\ ~in.Hempty)
        /\ ((nofit \/ ~in.ransacAccepts \/ in.Hempty) => in.center = DefaultCenter)

VisualInputs == {in \in VisualInputsAll : VisualCanonical(in)}

\* The matches that pass `distance < max(3 * minDist, 30)`.
GoodMatches(in) ==
    LET present == {d \in {DistNear, DistMid, DistFar} :
                        \/ d = DistNear /\ in.near > 0
                        \/ d = DistMid /\ in.mid > 0
                        \/ d = DistFar /\ in.far > 0}
        minDist == CHOOSE d \in present : \A e \in present : d <= e
        threshold == Max(RatioFactor * minDist, RatioFloor)
        count(d) == IF d = DistNear THEN in.near
                    ELSE IF d = DistMid THEN in.mid ELSE in.far
        keep(d) == IF d \in present /\ d < threshold THEN count(d) ELSE 0
    IN  IF present = {} THEN 0
        ELSE keep(DistNear) + keep(DistMid) + keep(DistFar)

\* trackFeatures() that returns true without counting the matches kept.
TrackFeaturesUncounted(e, in) ==
    IF e.prevKeypoints = 0 \/ in.nkp = 0 THEN [ok |-> FALSE, engine |-> e]
    ELSE IF in.matchThrows THEN [ok |-> FALSE, engine |-> e]
    ELSE IF in.near + in.mid + in.far < MinInliers THEN [ok |-> FALSE, engine |-> e]
    ELSE [ok |-> TRUE, engine |-> [e EXCEPT !.trackedPoints = GoodMatches(in)]]

\* trackFeatures(): [ok, engine].  e.prevKeypoints is the previous frame's
\* keypoint count, in.nkp this frame's.
trackFeatures(e, in) ==
    IF e.prevKeypoints = 0 \/ in.nkp = 0 THEN [ok |-> FALSE, engine |-> e]
    ELSE IF in.matchThrows THEN [ok |-> FALSE, engine |-> e]
    ELSE IF in.near + in.mid + in.far < MinInliers THEN [ok |-> FALSE, engine |-> e]
    ELSE LET n == GoodMatches(in)
         IN  [ok |-> n >= MinInliers,
              engine |-> [e EXCEPT !.trackedPoints = n]]

\* detectPlane(): [ok, fit, engine]; fit says that the homography was accepted.
detectPlane(e, in) ==
    LET decayed == [e EXCEPT !.planeConfidence = DecayConfidence(e.planeConfidence)]
        inlierCount == IF in.ransacAccepts THEN e.trackedPoints ELSE MinInliers - 1
        failed == [ok |-> FALSE, fit |-> FALSE, engine |-> decayed]
    IN  IF e.trackedPoints < MinPlanePoints THEN failed
        ELSE IF in.homThrows THEN failed
        ELSE IF inlierCount >= MinInliers /\ ~in.Hempty
             THEN LET c == RampConfidence(e.planeConfidence)
                  IN  [ok |-> AboveThreshold(c), fit |-> TRUE,
                       engine |-> [e EXCEPT !.planeConfidence = c,
                                            !.groundPlane = [kind |-> "plane",
                                                             center |-> in.center],
                                            !.detectedPlanes = 1]]
        ELSE failed

\* estimatePose(): [ok, engine].
estimatePose(e) ==
    IF e.groundPlane = Null THEN [ok |-> FALSE, engine |-> e]
    ELSE [ok |-> TRUE,
          engine |-> [e EXCEPT !.currentPose =
                          [kind |-> "visual",
                           planeCenter |-> e.groundPlane.center,
                           confidence |-> e.planeConfidence]]]

RethrowError(e) == [engine |-> e, result |-> Null, outcome |-> "exception"]

\* The catch block of processFrame and the statements after it, for an
\* exception thrown in the try block: the caller gets the initial result.
AREngine_catch(e) ==
    [engine |-> [e EXCEPT !.isTracking = FALSE],
     result |-> EmptyResult, outcome |-> "exception"]

\* processFrame(video): [engine, result, outcome].  outcome names the path
\* taken: "invalid", "exception", "first" (no previous frame), "notrack"
\* (trackFeatures false), "noplane" (fit rejected or failed), "success".
AREngine_processFrame(e, in) ==
    IF in.size[1] = 0 \/ in.size[2] = 0
    THEN [engine |-> e, result |-> EmptyResult, outcome |-> "invalid"]
    ELSE
    LET realloc == e.frame = Null \/ e.frame.rows # in.size[2]
                   \/ e.frame.cols # in.size[1]
        e1 == IF realloc
              THEN [e EXCEPT !.frame = [kind |-> "mat", rows |-> in.size[2],
                                        cols |-> in.size[1]],
                             !.prevGrayFrame = [kind |-> "mat", rows |-> 0]]
              ELSE e
    IN  IF in.exc = "capture"
        THEN AREngine_catch(e1)
        ELSE
        LET r1 == [EmptyResult EXCEPT !.featureCount = in.nkp,
                                      !.hasFeatures = in.nkp > HasFeaturesThreshold]
            hasPrev == e1.prevGrayFrame.rows > 0 /\ e1.prevKeypoints > 0
            tf == trackFeatures(e1, in)
            dp == detectPlane(tf.engine, in)
            ep == estimatePose(dp.engine)
            e2 == IF ~hasPrev THEN e1
                  ELSE IF ~tf.ok THEN tf.engine
                  ELSE IF ~dp.ok THEN dp.engine
                  ELSE ep.engine
            r2 == IF ~hasPrev \/ ~tf.ok THEN r1
                  ELSE IF ~dp.ok
                       THEN [r1 EXCEPT !.planeCount = dp.engine.detectedPlanes]
                  ELSE [r1 EXCEPT !.planeCount = dp.engine.detectedPlanes,
                                  !.isTracking = ep.ok,
                                  !.pose = ep.engine.currentPose]
            out == IF ~hasPrev THEN "first"
                   ELSE IF ~tf.ok THEN "notrack"
                   ELSE IF dp.fit THEN "success"
                   ELSE "noplane"
        IN  [engine |-> [e2 EXCEPT !.prevGrayFrame = [kind |-> "mat",
                                                      rows |-> in.size[2]],
                                   !.prevKeypoints = in.nkp,
                                   !.isTracking = r2.isTracking],
             result |-> r2, outcome |-> out]

\* reset(): prevGrayFrame is null until the first valid frame, and then
\* `this.prevGrayFrame.rows` throws after the fields above it were cleared.
AREngine_reset(e) ==
    [e EXCEPT !.isTracking = FALSE, !.trackedPoints = 0, !.currentPose = Null,
              !.detectedPlanes = 0, !.groundPlane = Null]

(***************************************************************************)
(* The OpenCV objects of the visual tracker.                               *)
(***************************************************************************)

\* The fields of AREngine that hold an OpenCV object, in the order in which
\* dispose() deletes them.
DisposeOrder ==
    <<"frame", "grayFrame", "prevGrayFrame", "keypoints", "descriptors",
      "prevKeypoints", "prevDescriptors", "cameraMatrix", "distCoeffs",
      "orb", "matcher">>
BufferNames == {DisposeOrder[i] : i \in 1..Len(DisposeOrder)}

\* A tracker without OpenCV objects (the hit-test and the geodetic tracker).
NativeNone ==
    [mats |-> [f \in BufferNames |-> "null"], leaked |-> FALSE,
     disposed |-> FALSE]

\* After the constructor and init(): the three frame matrices are still
\* null.  mats[f] is "null", "live" or "deleted"; leaked: an object was
\* overwritten or dropped without delete().
NativeInit ==
    [mats |-> [f \in BufferNames |->
                 IF f \in {"frame", "grayFrame", "prevGrayFrame"}
                 THEN "null" ELSE "live"],
     leaked |-> FALSE, disposed |-> FALSE]

\* The objects that the reallocation in processFrame and initCameraMatrix
\* assign over while the old object is live and was not deleted.
OverwrittenOnRealloc(n) ==
    {f \in {"grayFrame", "prevGrayFrame", "cameraMatrix", "distCoeffs"} :
        n.mats[f] = "live"}

\* What processFrame(video) does to the OpenCV objects: on the first frame
\* and on a change of dimensions it deletes and replaces frame, replaces
\* grayFrame and prevGrayFrame and, in initCameraMatrix, cameraMatrix and
\* distCoeffs without deleting them; detectFeatures and the swap delete what
\* they replace, and detectFeatures drops the mask it passes to
\* detectAndCompute.
AREngine_processFrameBuffers(n, e, in) ==
    IF in.size[1] = 0 \/ in.size[2] = 0 THEN n
    ELSE
    LET realloc == e.frame = Null \/ e.frame.rows # in.size[2]
                   \/ e.frame.cols # in.size[1]
        overwritten == OverwrittenOnRealloc(n)
        n1 == IF realloc
              THEN [n EXCEPT !.mats = [f \in BufferNames |->
                                         IF f \in {"frame", "grayFrame",
                                                   "prevGrayFrame",
                                                   "cameraMatrix", "distCoeffs"}
                                         THEN "live" ELSE n.mats[f]],
                             !.leaked = n.leaked \/ overwritten # {}]
              ELSE n
    IN  IF in.exc = "capture" THEN n1
        ELSE [n1 EXCEPT !.leaked = TRUE]

\* dispose(): `this.f?.delete()` for each field in turn.  delete() on an
\* object that is already deleted throws, and the rest is not reached.
RECURSIVE DisposeFrom(_, _)
DisposeFrom(mats, i) ==
    IF i > Len(DisposeOrder) THEN [mats |-> mats, threw |-> FALSE]
    ELSE LET f == DisposeOrder[i]
         IN  CASE mats[f] = "null" -> DisposeFrom(mats, i + 1)
               [] mats[f] = "live" ->
                    DisposeFrom([mats EXCEPT ![f] = "deleted"], i + 1)
               [] mats[f] = "deleted" -> [mats |-> mats, threw |-> TRUE]

\* dispose(): [native, threw]
AREngine_dispose(n) ==
    LET d == DisposeFrom(n.mats, 1)
    IN  [native |-> [n EXCEPT !.mats = d.mats, !.disposed = TRUE],
         threw |-> d.threw]

(***************************************************************************)
(* The OpenCV objects behind keypoints, descriptors, prevKeypoints,        *)
(* prevDescriptors, orb and matcher, as objects with an identity: a field  *)
(* holds the number of an object, delete() releases the object, and a use  *)
(* or a second delete() of a released object throws.                       *)
(***************************************************************************)

ObjectFields ==
    {"keypoints", "descriptors", "prevKeypoints", "prevDescriptors", "orb",
     "matcher", "tempKp", "tempDesc"}

\* What an object holds: the tick that filled it ("init": none yet,
\* "current": the last tick, "earlier") and the number of features.
Holds(filledIn, n) == [filledIn |-> filledIn, n |-> n]

\* State after init(): six objects, the locals of processFrame unset (0).
ObjectsInit ==
    [obj |-> [f \in ObjectFields |->
                CASE f = "keypoints" -> 1
                  [] f = "descriptors" -> 2
                  [] f = "prevKeypoints" -> 3
                  [] f = "prevDescriptors" -> 4
                  [] f = "orb" -> 5
                  [] f = "matcher" -> 6
                  [] OTHER -> 0],
     holds |-> [i \in 1 .. 6 |-> Holds("init", 0)],
     released |-> {},
     fault |-> "none",
     threw |-> FALSE]

\* One statement of the code on the objects.
Stmt(kind, a, b) == [kind |-> kind, a |-> a, b |-> b]

\* The number of the next object `new` creates.
FreshObject(h) == Cardinality(DOMAIN h.holds) + 1

Exec(h, s) ==
    CASE s.kind = "delete" ->
            IF h.obj[s.a] \in h.released
            THEN [h EXCEPT !.fault = "releasedTwice", !.threw = TRUE]
            ELSE [h EXCEPT !.released = @ \cup {h.obj[s.a]}]
      [] s.kind = "use" ->
            IF h.obj[s.a] \in h.released
            THEN [h EXCEPT !.fault = "usedAfterRelease", !.threw = TRUE]
            ELSE h
      [] s.kind = "new" ->
            LET id == FreshObject(h)
            IN  [h EXCEPT !.obj[s.a] = id,
                          !.holds = [i \in DOMAIN h.holds \cup {id} |->
                                       IF i = id THEN Holds("current", 0)
                                       ELSE h.holds[i]]]
      [] s.kind = "assign" -> [h EXCEPT !.obj[s.a] = h.obj[s.b]]
      [] s.kind = "fill" ->
            IF h.obj[s.a] \in h.released
            THEN [h EXCEPT !.fault = "usedAfterRelease", !.threw = TRUE]
            ELSE [h EXCEPT !.holds[h.obj[s.a]] = Holds("current", s.b)]
      [] s.kind = "throw" -> [h EXCEPT !.threw = TRUE]

\* The statements in turn, up to the first that throws.
RECURSIVE Run(_, _, _)
Run(h, stmts, i) ==
    IF i > Len(stmts) \/ h.threw THEN h
    ELSE Run(Exec(h, stmts[i]), stmts, i + 1)

\* The objects as the next call finds them: the locals are gone, the
\* exception is caught, and the objects no field refers to are forgotten
\* (the others are numbered anew in their order).
Settle(h) ==
    LET fields == ObjectFields \ {"tempKp", "tempDesc"}
        kept == {h.obj[f] : f \in fields}
        rank(id) == Cardinality({k \in kept : k <= id})
        back(r) == CHOOSE k \in kept : rank(k) = r
    IN  [obj |-> [f \in ObjectFields |->
                    IF f \in fields THEN rank(h.obj[f]) ELSE 0],
         holds |-> [r \in 1 .. Cardinality(kept) |-> h.holds[back(r)]],
         released |-> {rank(k) : k \in kept \cap h.released},
         fault |-> h.fault,
         threw |-> FALSE]

\* detectFeatures() finding n features; detectAndCompute throws if fails.
detectFeaturesObjects(n, fails) ==
    <<Stmt("delete", "keypoints", 0), Stmt("new", "keypoints", 0),
      Stmt("delete", "descriptors", 0), Stmt("new", "descriptors", 0),
      Stmt("use", "orb", 0)>>
    \o (IF fails THEN <<Stmt("throw", "detect", 0)>> ELSE <<>>)
    \o <<Stmt("fill", "keypoints", n), Stmt("fill", "descriptors", n)>>

\* trackFeatures(), with prev features from the previous frame; a throw of
\* matcher.match is caught inside, fails is a throw after it.
trackFeaturesObjects(prev, n, fails) ==
    <<Stmt("use", "prevKeypoints", 0), Stmt("use", "keypoints", 0)>>
    \o (IF prev > 0 /\ n > 0
        THEN <<Stmt("use", "prevDescriptors", 0), Stmt("use", "descriptors", 0),
               Stmt("use", "matcher", 0)>>
             \o (IF fails THEN <<Stmt("throw", "track", 0)>> ELSE <<>>)
             \o <<Stmt("use", "prevKeypoints", 0), Stmt("use", "keypoints", 0)>>
        ELSE <<>>)

\* The swap, without the new KeyPointVector for this.keypoints.
SwapWithoutNew ==
    <<Stmt("assign", "tempKp", "prevKeypoints"),
      Stmt("assign", "prevKeypoints", "keypoints"),
      Stmt("assign", "keypoints", "tempKp"),
      Stmt("delete", "keypoints", 0),
      Stmt("assign", "tempDesc", "prevDescriptors"),
      Stmt("assign", "prevDescriptors", "descriptors"),
      Stmt("assign", "descriptors", "tempDesc")>>

\* "Swap keypoints and descriptors" at the end of processFrame.
SwapBuffers ==
    <<Stmt("assign", "tempKp", "prevKeypoints"),
      Stmt("assign", "prevKeypoints", "keypoints"),
      Stmt("assign", "keypoints", "tempKp"),
      Stmt("delete", "keypoints", 0),
      Stmt("new", "keypoints", 0),
      Stmt("assign", "tempDesc", "prevDescriptors"),
      Stmt("assign", "prevDescriptors", "descriptors"),
      Stmt("assign", "descriptors", "tempDesc")>>

\* What the last tick filled is now from an earlier tick.
Aged(h) ==
    [h EXCEPT !.holds = [i \in DOMAIN h.holds |->
                           IF h.holds[i].filledIn = "current"
                           THEN Holds("earlier", h.holds[i].n)
                           ELSE h.holds[i]]]

\* processFrame(video) on the objects: n features are found; exc is the
\* place where an exception is thrown ("none", "capture", "detect", "track",
\* "debug").  [objects, completed]
processFrameObjects(h, n, exc) ==
    LET prev == h.holds[h.obj["prevKeypoints"]].n
        stmts ==
            (IF exc = "capture" THEN <<Stmt("throw", "capture", 0)>> ELSE <<>>)
            \o detectFeaturesObjects(n, exc = "detect")
            \o <<Stmt("use", "prevKeypoints", 0)>>
            \o (IF prev > 0 THEN trackFeaturesObjects(prev, n, exc = "track") ELSE <<>>)
            \o SwapBuffers
            \o (IF exc = "debug" THEN <<Stmt("throw", "debug", 0)>> ELSE <<>>)
        after == Run(Aged(h), stmts, 1)
    IN  [objects |-> Settle(after), completed |-> ~after.threw]

\* updateSettings(settings) on the objects.
updateSettingsObjects(h, maxFeaturesGiven) ==
    IF maxFeaturesGiven
    THEN Settle(Run(h, <<Stmt("delete", "orb", 0), Stmt("new", "orb", 0)>>, 1))
    ELSE h

(***************************************************************************)
(* WebXREngine: the hit-test tracker.                                      *)
(***************************************************************************)

\* Math.min(1.0, planeConfidence + 0.15)
XRRampConfidence(c) == Min(ConfidenceCap, c + RampStep)

\* Math.max(0, planeConfidence - 0.1)
XRDecayConfidence(c) == Max(ConfidenceFloor, c - DecayStep)

\* planeConfidence > 0.5
XRAboveThreshold(c) == c > TrackingThreshold

\* State after the constructor and a successful init().
WebXREngineInit ==
    [planeConfidence |-> 0, isTracking |-> FALSE, currentPose |-> Null,
     isSupported |-> TRUE, isSessionActive |-> FALSE, xrSession |-> FALSE,
     xrRefSpace |-> FALSE, xrHitTestSource |-> FALSE,
     viewerPose |-> Null, hitTestResults |-> 0]

\* Positions of hit-test results, and viewer transforms (camera position and
\* viewing direction), in the local reference space.
HitPositions == {<<0, 0, -300>>, <<100, 0, -200>>}
ViewerTransforms ==
    {[kind |-> "transform", position |-> <<0, 150, 0>>, look |-> "down"],
     [kind |-> "transform", position |-> <<100, 150, 0>>, look |-> "down"],
     [kind |-> "transform", position |-> <<0, 150, 0>>, look |-> "level"]}

DefaultHit == CHOOSE p \in HitPositions : TRUE
DefaultViewer == CHOOSE v \in ViewerTransforms : TRUE

\* One XRFrame and what the session answers for it.
XRInputsAll ==
    [frame : BOOLEAN, viewerPose : BOOLEAN, views : 0..1,
     hitsThrow : BOOLEAN, hits : 0..MaxHits, hitPose : BOOLEAN,
     position : HitPositions, viewer : ViewerTransforms]

XRCanonical(in) ==
    LET noviewer == ~in.frame \/ ~in.viewerPose
        nohits == noviewer \/ in.hitsThrow \/ in.hits = 0
    IN  /\ (~in.frame => in.viewerPose)
        /\ (noviewer => ~in.hitsThrow)
        /\ ((noviewer \/ in.hitsThrow) => in.views = 1 /\ in.hits = 0)
        /\ (in.views = 0 => in.viewer = DefaultViewer)
        /\ (nohits => in.hitPose)
        /\ ((nohits \/ ~in.hitPose) => in.position = DefaultHit)

XRInputs == {in \in XRInputsAll : XRCanonical(in)}

\* The catch block of processFrame and the statements after it.
WebXREngine_catch(e) ==
    [engine |-> [e EXCEPT !.isTracking = FALSE],
     result |-> EmptyResult, outcome |-> "exception"]

\* processFrame(frame): [engine, result, outcome].  outcome: "inactive",
\* "noviewer", "exception", "hit", "nullpose" (a hit without a pose), "miss".
WebXREngine_processFrame(e, in) ==
    IF ~e.isSessionActive \/ ~in.frame
    THEN [engine |-> e, result |-> EmptyResult, outcome |-> "inactive"]
    ELSE IF ~in.viewerPose
    THEN [engine |-> [e EXCEPT !.viewerPose = Null],
          result |-> EmptyResult, outcome |-> "noviewer"]
    ELSE
    LET e1 == [e EXCEPT !.viewerPose = [kind |-> "viewerPose", views |-> in.views]]
    IN  IF e1.xrHitTestSource /\ in.hitsThrow
        THEN WebXREngine_catch(e1)
        ELSE
        LET hit == e1.xrHitTestSource /\ in.hits > 0 /\ in.hitPose
            miss == e1.xrHitTestSource /\ in.hits = 0
            c == IF hit THEN XRRampConfidence(e1.planeConfidence)
                 ELSE IF miss THEN XRDecayConfidence(e1.planeConfidence)
                 ELSE e1.planeConfidence
            pose == [kind |-> "hit", position |-> in.position, confidence |-> c]
            e2 == [e1 EXCEPT !.hitTestResults =
                                 IF e1.xrHitTestSource THEN in.hits ELSE @,
                             !.planeConfidence = c,
                             !.currentPose = IF hit THEN pose ELSE @]
            r1 == IF hit
                  THEN [EmptyResult EXCEPT !.isTracking = XRAboveThreshold(c),
                                           !.hasFeatures = TRUE,
                                           !.featureCount = in.hits,
                                           !.planeCount = in.hits,
                                           !.pose = pose]
                  ELSE EmptyResult
            r2 == IF in.views > 0 THEN [r1 EXCEPT !.viewerTransform = in.viewer]
                  ELSE r1
        IN  [engine |-> [e2 EXCEPT !.isTracking = r2.isTracking],
             result |-> r2,
             outcome |-> IF hit THEN "hit"
                         ELSE IF miss THEN "miss"
                         ELSE "nullpose"]

\* startSession(canvas), once every request of it has resolved.
WebXREngine_startSession(e) ==
    [e EXCEPT !.xrSession = TRUE, !.xrRefSpace = TRUE,
              !.xrHitTestSource = TRUE, !.isSessionActive = TRUE]

\* onSessionEnd(): the session's 'end' event.
WebXREngine_onSessionEnd(e) ==
    [e EXCEPT !.isSessionActive = FALSE, !.xrSession = FALSE,
              !.xrRefSpace = FALSE, !.xrHitTestSource = FALSE,
              !.isTracking = FALSE, !.planeConfidence = 0]

\* reset()
WebXREngine_reset(e) ==
    [e EXCEPT !.isTracking = FALSE, !.currentPose = Null,
              !.hitTestResults = 0, !.planeConfidence = 0]

(***************************************************************************)
(* ARLocationEngine: the geodetic tracker.  Latitudes and longitudes are   *)
(* in microdegrees, distances in centimetres, accuracies in metres,        *)
(* bearings and headings in degrees.                                       *)
(***************************************************************************)

\* A number held in a field that can also be null.
Num(n) == [kind |-> "number", value |-> n]

\* The fix and the targets of the walk-through: 37.0 N 122.0 W, and targets
\* north and east of it.
HomeLatitude == 37000000
HomeLongitude == 0 - 122000000
GeoOffsets == {TooClose, 1000, TooFar}
Accuracies == {5, PoorAccuracy}
Headings == {90}

\* position.coords of a GeolocationPosition
Positions ==
    {[kind |-> "position", latitude |-> HomeLatitude,
      longitude |-> HomeLongitude, altitude |-> 0, accuracy |-> a] :
        a \in Accuracies}

\* The arguments of setTargetLocation(latitude, longitude, altitude = 0)
Targets ==
    {[kind |-> "target", latitude |-> HomeLatitude + d,
      longitude |-> HomeLongitude, altitude |-> 0] : d \in GeoOffsets}
    \cup {[kind |-> "target", latitude |-> HomeLatitude,
           longitude |-> HomeLongitude + 1000, altitude |-> 0]}

\* Math.sqrt on integers, rounded down: the root lies in lo..hi
RECURSIVE SqrtBetween(_, _, _)
SqrtBetween(n, lo, hi) ==
    IF lo >= hi THEN lo
    ELSE LET mid == (lo + hi + 1) \div 2
         IN  IF mid * mid <= n THEN SqrtBetween(n, mid, hi)
             ELSE SqrtBetween(n, lo, mid - 1)
ISqrt(n) == SqrtBetween(n, 0, 2 * TooFar + 2)

\* Math.cos(phi1) and Math.cos(phi2) at 37 degrees of latitude, in 1/10000
CosLatitude == 7986

\* calculateDistance(lat1, lon1, lat2, lon2): the haversine formula, with
\* sin x = x and atan2(sqrt a, sqrt(1 - a)) = sqrt a for the differences of
\* less than 0.02 degrees that occur here.
calculateDistance(lat1, lon1, lat2, lon2) ==
    LET dphi == lat2 - lat1
        east == (CosLatitude * (lon2 - lon1)) \div 10000
        a == dphi * dphi + east * east
    IN  (ISqrt(a) * MicroDegreeLength) \div 10000

\* Math.atan2(y, x) in degrees, for a direction on an axis or on a diagonal;
\* other directions are rounded to the diagonal of their quadrant.
Atan2Deg(y, x) ==
    IF y = 0 THEN (IF x >= 0 THEN 0 ELSE 180)
    ELSE IF x = 0 THEN (IF y > 0 THEN 90 ELSE 0 - 90)
    ELSE IF x > 0 THEN (IF y > 0 THEN 45 ELSE 0 - 45)
    ELSE (IF y > 0 THEN 135 ELSE 0 - 135)

BearingSwapped(lat1, lon1, lat2, lon2) ==
    (Atan2Deg(lat2 - lat1, (CosLatitude * (lon2 - lon1)) \div 10000) + 360) % 360

\* Math.cos of a latitude given in microdegrees, in 1/10000, for the whole
\* degrees the latitudes used here lie in.
Cos(lat) ==
    LET d == (IF lat >= 0 THEN lat ELSE 0 - lat) \div 1000000
    IN  CASE d = 0 -> 10000
          [] d = 1 -> 9998
          [] d = 2 -> 9994
          [] d = 3 -> 9986
          [] d = 37 -> CosLatitude

\* y of calculateBearing: cos(phi2) * dlambda, with sin x = x; the product
\* is split so that it stays within 32 bits.
BearingY(lat2, dl) ==
    Cos(lat2) * (dl \div 10000) + (Cos(lat2) * (dl % 10000)) \div 10000

\* calculateBearing without the normalisation to 0-360.
BearingUnnormalized(lat1, lon1, lat2, lon2) ==
    Atan2Deg(BearingY(lat2, lon2 - lon1), lat2 - lat1)

\* calculateBearing(lat1, lon1, lat2, lon2), with sin x = x and cos x = 1
\* for the differences that occur here.
calculateBearing(lat1, lon1, lat2, lon2) ==
    LET y == BearingY(lat2, lon2 - lon1)
        x == lat2 - lat1
    IN  (Atan2Deg(y, x) + 360) % 360

\* Math.sin and Math.cos of a heading that is a multiple of 90 degrees
SinDeg(h) == CASE h = 0 -> 0 [] h = 90 -> 1 [] h = 180 -> 0 [] h = 270 -> 0 - 1
CosDeg(h) == CASE h = 0 -> 1 [] h = 90 -> 0 [] h = 180 -> 0 - 1 [] h = 270 -> 0

\* Math.min(1.0, gpsAccuracyThreshold / accuracy), in hundredths
GeoConfidence(accuracy) ==
    IF accuracy = 0 THEN ConfidenceCap
    ELSE Min(ConfidenceCap, (GpsAccuracyThreshold * 100) \div accuracy)

\* State after the constructor and checkSupport().
ARLocationEngineInit ==
    [isSupported |-> TRUE, isInitialized |-> FALSE, isTracking |-> FALSE,
     currentLocation |-> Null, targetLocation |-> Null, watchId |-> Null,
     deviceOrientation |-> [alpha |-> 0], currentPose |-> Null,
     distance |-> Null, bearing |-> Null]

\* updatePose()
updatePose(e) ==
    LET relativeHeading ==
            (e.bearing.value - e.deviceOrientation.alpha + 360) % 360
        x == e.distance.value * SinDeg(relativeHeading)
        z == 0 - e.distance.value * CosDeg(relativeHeading)
        y == e.targetLocation.altitude - e.currentLocation.altitude
    IN  [e EXCEPT !.currentPose =
            [kind |-> "geo", position |-> <<x, y, z>>,
             rotationY |-> e.deviceOrientation.alpha,
             distance |-> e.distance.value, bearing |-> e.bearing.value,
             accuracy |-> e.currentLocation.accuracy,
             confidence |-> GeoConfidence(e.currentLocation.accuracy)]]

DistanceOkNoMin(e) == e.distance.value <= MaxDistance

\* The accuracy test of updateTracking() passing every fix.
AccuracyAlwaysOk(e) == TRUE

\* accuracyOk && distanceOk
AccuracyOk(e) == e.currentLocation.accuracy <= GpsAccuracyThreshold
DistanceOk(e) ==
    e.distance.value >= MinDistance /\ e.distance.value <= MaxDistance

\* updateTracking() without its call of updatePose().
UpdateTrackingWithoutPose(e) ==
    IF e.currentLocation = Null \/ e.targetLocation = Null
    THEN [e EXCEPT !.isTracking = FALSE]
    ELSE
    LET e1 == [e EXCEPT
                !.distance = Num(calculateDistance(
                    e.currentLocation.latitude, e.currentLocation.longitude,
                    e.targetLocation.latitude, e.targetLocation.longitude)),
                !.bearing = Num(calculateBearing(
                    e.currentLocation.latitude, e.currentLocation.longitude,
                    e.targetLocation.latitude, e.targetLocation.longitude))]
    IN  [e1 EXCEPT !.isTracking = AccuracyOk(e1) /\ DistanceOk(e1)]

\* updateTracking()
updateTracking(e) ==
    IF e.currentLocation = Null \/ e.targetLocation = Null
    THEN [e EXCEPT !.isTracking = FALSE]
    ELSE
    LET e1 == [e EXCEPT
                !.distance = Num(calculateDistance(
                    e.currentLocation.latitude, e.currentLocation.longitude,
                    e.targetLocation.latitude, e.targetLocation.longitude)),
                !.bearing = Num(calculateBearing(
                    e.currentLocation.latitude, e.currentLocation.longitude,
                    e.targetLocation.latitude, e.targetLocation.longitude))]
        e2 == [e1 EXCEPT !.isTracking = AccuracyOk(e1) /\ DistanceOk(e1)]
    IN  IF e2.isTracking THEN updatePose(e2) ELSE e2

\* updateLocation(position)
ARLocationEngine_updateLocation(e, position) ==
    updateTracking([e EXCEPT !.currentLocation =
        [kind |-> "fix", latitude |-> position.latitude,
         longitude |-> position.longitude, altitude |-> position.altitude,
         accuracy |-> position.accuracy]])

\* setTargetLocation(latitude, longitude, altitude)
ARLocationEngine_setTargetLocation(e, target) ==
    updateTracking([e EXCEPT !.targetLocation = target])

\* processFrame(): [engine, result, outcome].  outcome: "nofix", "notarget",
\* "tracking", "untrackable".
ARLocationEngine_processFrame(e) ==
    [engine |-> e,
     result |-> [isTracking |-> e.isTracking,
                 hasFeatures |-> e.currentLocation # Null,
                 featureCount |-> IF e.isTracking THEN 1 ELSE 0,
                 planeCount |-> 0,
                 pose |-> e.currentPose,
                 gpsData |-> [currentLocation |-> e.currentLocation,
                              targetLocation |-> e.targetLocation,
                              distance |-> e.distance,
                              bearing |-> e.bearing]],
     outcome |-> IF e.currentLocation = Null THEN "nofix"
                 ELSE IF e.targetLocation = Null THEN "notarget"
                 ELSE IF e.isTracking THEN "tracking"
                 ELSE "untrackable"]

ResetKeepsPose(e) ==
    [e EXCEPT !.targetLocation = Null, !.distance = Null, !.bearing = Null,
              !.isTracking = FALSE]

\* dispose()
ARLocationEngine_dispose(e) == [e EXCEPT !.watchId = Null, !.isInitialized = FALSE]

\* reset()
ARLocationEngine_reset(e) ==
    [e EXCEPT !.targetLocation = Null, !.currentPose = Null,
              !.distance = Null, !.bearing = Null, !.isTracking = FALSE]

(***************************************************************************)
(* SceneManager: placement and anchoring.                                  *)
(***************************************************************************)

\* window.innerWidth, window.innerHeight
Screen == <<4, 4>>

\* Viewing directions of the camera: forward, right and up vectors.  "down"
\* is the direction of lookAt(0, 0, -3) from (0, 1.5, 0).
Forward(look) ==
    CASE look = "down" -> <<0, -1, -2>>
      [] look = "level" -> <<0, 0, -1>>
Right(look) == <<1, 0, 0>>
Up(look) ==
    CASE look = "down" -> <<0, 2, -1>>
      [] look = "level" -> <<0, 1, 0>>

\* Distance of the image plane in units of the up and right vectors.
FocalScale == 2

\* Raycaster.setFromCamera(ndc, camera): the ray through the screen point.
SetFromCamera(ndc, camera) ==
    LET f == Forward(camera.look)
        r == Right(camera.look)
        u == Up(camera.look)
    IN  [origin |-> camera.position,
         direction |-> <<FocalScale * f[1] + ndc[1] * r[1] + ndc[2] * u[1],
                         FocalScale * f[2] + ndc[1] * r[2] + ndc[2] * u[2],
                         FocalScale * f[3] + ndc[1] * r[3] + ndc[2] * u[3]>>]

\* ray.intersectPlane(new Plane((0, 1, 0), 0)): the point of the ray at
\* y = 0, or Null when the ray runs parallel to the plane or away from it.
IntersectGround(ray) ==
    LET o == ray.origin
        d == ray.direction
        den == IF d[2] < 0 THEN -d[2] ELSE d[2]
        sgn == IF d[2] < 0 THEN 1 ELSE -1
        at(k) == o[k] + (sgn * o[2] * d[k]) \div den
    IN  IF d[2] = 0
        THEN IF o[2] = 0 THEN [kind |-> "point", x |-> o[1], y |-> 0, z |-> o[3]]
             ELSE Null
        ELSE IF sgn * o[2] < 0 THEN Null
        ELSE [kind |-> "point", x |-> at(1), y |-> 0, z |-> at(3)]

\* degrees * (Math.PI / 180), in 1/10000 rad
PiTenThousandths == 31416
HalfTurnDegrees == 180
DegToRad(degrees) == (degrees * PiTenThousandths) \div HalfTurnDegrees

\* (screenX / screenWidth) * 2 - 1 and -(screenY / screenHeight) * 2 + 1
ScreenToNDC(p) ==
    <<(p[1] * 2) \div Screen[1] - 1, 1 - (p[2] * 2) \div Screen[2]>>

InitialCamera == [position |-> <<0, 150, 0>>, look |-> "down"]
Origin == <<0, 0, 0>>
FallbackPosition == <<0, 0, -200>>
Hidden == [visible |-> FALSE, position |-> Origin]

\* State after the constructor and init().
SceneManagerInit ==
    [model |-> Null, isModelPlaced |-> FALSE, modelScale |-> 1,
     modelRotation |-> 0, placedPosition |-> Origin, lastPose |-> Null,
     worldTrackingEnabled |-> FALSE, camera |-> InitialCamera,
     modelGroup |-> [visible |-> FALSE, position |-> Origin, rotationY |-> 0,
                     children |-> {}],
     shadowPlane |-> Hidden, groundIndicator |-> Hidden, gridHelper |-> Hidden]

\* setModel(model)
SceneManager_setModel(s, model) ==
    [s EXCEPT !.model = model,
              !.isModelPlaced = FALSE,
              !.modelGroup.visible = FALSE,
              !.modelGroup.children =
                  (@ \ {s.model}) \cup (IF model = Null THEN {} ELSE {model})]

\* The body of placeModel after its `!this.model` check, for the screen
\* point given in normalized device coordinates.
PlaceAt(s, ndc) ==
    LET hit == IntersectGround(SetFromCamera(ndc, s.camera))
        position == IF hit # Null THEN <<hit.x, 0, hit.z>> ELSE FallbackPosition
    IN  [s EXCEPT !.modelGroup.position = position,
                  !.modelGroup.rotationY = DegToRad(s.modelRotation),
                  !.modelGroup.visible = TRUE,
                  !.shadowPlane = [visible |-> TRUE,
                                   position |-> <<position[1], 0, position[3]>>],
                  !.groundIndicator.visible = FALSE,
                  !.gridHelper.visible = FALSE,
                  !.isModelPlaced = TRUE,
                  !.placedPosition = position]

PlaceModelUnchecked(s, pose) ==
    [scene |-> PlaceAt(s, <<0, 0>>), returned |-> TRUE]

PlaceModelAtPlaneCenter(s, pose) ==
    IF s.model = Null THEN [scene |-> s, returned |-> FALSE]
    ELSE [scene |-> PlaceAt(s, IF pose.kind = "visual"
                               THEN ScreenToNDC(pose.planeCenter) ELSE <<0, 0>>),
          returned |-> TRUE]

\* placeModel(pose): [scene, returned]
SceneManager_placeModel(s, pose) ==
    IF s.model = Null THEN [scene |-> s, returned |-> FALSE]
    ELSE [scene |-> PlaceAt(s, <<0, 0>>), returned |-> TRUE]

\* updateModelPose(pose): [scene, threw].  A pose without planeCenter makes
\* `pose.planeCenter.x` throw after lastPose was stored.
SceneManager_updateModelPose(s, pose) ==
    IF pose = Null THEN [scene |-> s, threw |-> FALSE]
    ELSE
    LET s1 == [s EXCEPT !.lastPose = pose]
    IN  IF pose.kind # "visual" THEN [scene |-> s1, threw |-> TRUE]
        ELSE
        LET hit == IntersectGround(SetFromCamera(ScreenToNDC(pose.planeCenter),
                                                 s1.camera))
        IN  IF hit # Null /\ ~s1.isModelPlaced
            THEN [scene |-> [s1 EXCEPT
                      !.groundIndicator = [visible |-> TRUE,
                                           position |-> <<hit.x, 1, hit.z>>],
                      !.gridHelper = [visible |-> TRUE,
                                      position |-> <<hit.x, 0, hit.z>>]],
                  threw |-> FALSE]
            ELSE [scene |-> s1, threw |-> FALSE]

\* resetModel()
SceneManager_resetModel(s) ==
    [s EXCEPT !.isModelPlaced = FALSE,
              !.modelGroup.visible = FALSE,
              !.shadowPlane.visible = FALSE,
              !.groundIndicator.visible = FALSE,
              !.gridHelper.visible = FALSE,
              !.placedPosition = Origin,
              !.modelGroup.position = Origin]

\* setModelScale(scale)
SceneManager_setModelScale(s, scale) == [s EXCEPT !.modelScale = scale]

\* setModelRotation(degrees)
SceneManager_setModelRotation(s, degrees) ==
    [s EXCEPT !.modelRotation = degrees,
              !.modelGroup.rotationY = DegToRad(degrees)]

Command(op, returned) == [op |-> op, returned |-> returned]

\* app.init() has finished and has left no engine behind.
Started ==
    [pc |-> "running", handler |-> FALSE, subscriptions |-> {}, orphans |-> {}]

\* What one callback of a frame loop did: how many times it called
\* processFrame and sceneManager.render(), where it requested the next
\* callback ("before" the tick, "after" the render, "never"), whether it
\* handed a pose to the scene manager, and whether that pose came out of
\* PoseKalmanFilter.filter.
FrameDone(ticks, renders, next, handed, filtered) ==
    [op |-> "frame", returned |-> FALSE, ticks |-> ticks, renders |-> renders,
     next |-> next, handed |-> handed, filtered |-> filtered]

(***************************************************************************)
(* KalmanFilter and PoseKalmanFilter.  Values, covariances and noises are  *)
(* in thousandths; a quotient is rounded down as \div rounds.              *)
(***************************************************************************)

\* 1.0; processNoise = 0.01 and measurementNoise = 0.1 by default; dt = 1/30
KUnit == 1000
DefaultProcessNoise == 10
DefaultMeasurementNoise == 100
FramesPerSecond == 30

\* State after the constructor.
KalmanFilterInit(processNoise, measurementNoise) ==
    [x |-> 0, v |-> 0, P |-> <<<<KUnit, 0>>, <<0, KUnit>>>>,
     Q |-> processNoise, R |-> measurementNoise]

\* predict()
KalmanFilter_predict(f) ==
    [f EXCEPT !.x = f.x + f.v \div FramesPerSecond,
              !.P = <<<<f.P[1][1] + f.Q, f.P[1][2]>>,
                      <<f.P[2][1], f.P[2][2] + f.Q>>>>]

\* update(measurement) with the innovation covariance S = R alone.
UpdateGainOverR(f, measurement) ==
    LET y == measurement - f.x
        S == f.R
    IN  [f EXCEPT !.x = f.x + (f.P[1][1] * y) \div S,
                  !.v = f.v + (f.P[2][1] * y) \div S,
                  !.P = <<<<f.P[1][1], f.P[1][2]>>, <<f.P[2][1], f.P[2][2]>>>>]

\* update(measurement) with twice the gain on the value.
UpdateGainDoubled(f, measurement) ==
    LET y == measurement - f.x
        S == f.P[1][1] + f.R
        P00 == f.P[1][1]
        P01 == f.P[1][2]
        P10 == f.P[2][1]
        P11 == f.P[2][2]
    IN  [f EXCEPT !.x = f.x + (2 * P00 * y) \div S,
                  !.v = f.v + (P10 * y) \div S,
                  !.P = <<<<((S - P00) * P00) \div S, ((S - P00) * P01) \div S>>,
                          <<P10 - (P10 * P00) \div S, P11 - (P10 * P01) \div S>>>>]

\* update(measurement): K = [P00 / S, P10 / S] with S = P00 + R.
KalmanFilter_update(f, measurement) ==
    LET y == measurement - f.x
        S == f.P[1][1] + f.R
        P00 == f.P[1][1]
        P01 == f.P[1][2]
        P10 == f.P[2][1]
        P11 == f.P[2][2]
    IN  [f EXCEPT !.x = f.x + (P00 * y) \div S,
                  !.v = f.v + (P10 * y) \div S,
                  !.P = <<<<((S - P00) * P00) \div S, ((S - P00) * P01) \div S>>,
                          <<P10 - (P10 * P00) \div S, P11 - (P10 * P01) \div S>>>>]

\* filter(measurement): the filter after predict() and update(); its x is
\* the value returned.
KalmanFilter_filter(f, measurement) ==
    KalmanFilter_update(KalmanFilter_predict(f), measurement)

\* reset() that only halves the estimate.
KalmanResetHalves(f) ==
    [f EXCEPT !.x = f.x \div 2, !.v = 0,
              !.P = <<<<KUnit, 0>>, <<0, KUnit>>>>]

\* reset()
KalmanFilter_reset(f) ==
    [f EXCEPT !.x = 0, !.v = 0, !.P = <<<<KUnit, 0>>, <<0, KUnit>>>>]

\* The six filters of a PoseKalmanFilter: the rotation filters get half the
\* noises.
Axes == {"posX", "posY", "posZ", "rotX", "rotY", "rotZ"}
PoseKalmanFilterInit(processNoise, measurementNoise) ==
    [a \in Axes |->
        IF a \in {"posX", "posY", "posZ"}
        THEN KalmanFilterInit(processNoise, measurementNoise)
        ELSE KalmanFilterInit(processNoise \div 2, measurementNoise \div 2)]

\* The number a pose holds for an axis.
Measurement(pose, a) ==
    CASE a = "posX" -> pose.position[1]
      [] a = "posY" -> pose.position[2]
      [] a = "posZ" -> pose.position[3]
      [] a = "rotX" -> pose.rotation[1]
      [] a = "rotY" -> pose.rotation[2]
      [] a = "rotZ" -> pose.rotation[3]

\* filter(pose): [bank, returned]
PoseKalmanFilter_filter(bank, pose) ==
    IF pose = Null THEN [bank |-> bank, returned |-> Null]
    ELSE
    LET b == [a \in Axes |-> KalmanFilter_filter(bank[a], Measurement(pose, a))]
    IN  [bank |-> b,
         returned |-> [kind |-> "filtered",
                       position |-> <<b["posX"].x, b["posY"].x, b["posZ"].x>>,
                       rotation |-> <<b["rotX"].x, b["rotY"].x, b["rotZ"].x>>,
                       planeCenter |-> pose.planeCenter,
                       confidence |-> pose.confidence]]

\* reset()
PoseKalmanFilter_reset(bank) == [a \in Axes |-> KalmanFilter_reset(bank[a])]

(***************************************************************************)
(* The trackers driven through their own interface.                        *)
(***************************************************************************)

\* Successful detections in a row, counted from confidence 0.
NextStreak(success, prevConf) ==
    IF ~success THEN 0
    ELSE IF prevConf = 0 THEN 1
    ELSE IF streak > 0 THEN Min(streak + 1, MaxStreak)
    ELSE 0

History(op, outcome) == [op |-> op, outcome |-> outcome]

\* Frames for the trackers on their own: the screen point and the transforms
\* a frame carries are read by the placement stage only.
TrackerVisualInputs == {in \in VisualInputs : in.center = DefaultCenter}
TrackerXRInputs ==
    {in \in XRInputs : in.position = DefaultHit /\ in.viewer = DefaultViewer}

\* The visual tracker is the backend in use.
IsVisual == arMode \in {"opencv", "unset"}

TrackerInit ==
    /\ arMode \in {"opencv", "webxr"}
    /\ arEngine = IF arMode = "opencv" THEN AREngineInit ELSE WebXREngineInit
    /\ result = EmptyResult
    /\ tick = History("init", "none")
    /\ streak = 0
    /\ isInitialized = FALSE
    /\ currentModel = Null
    /\ sceneManager = SceneManagerInit
    /\ cmd = Command("init", FALSE)
    /\ rafPending = FALSE
    /\ startup = Started
    /\ native = IF IsVisual THEN NativeInit ELSE NativeNone
    /\ poseFilter = PoseKalmanFilterInit(DefaultProcessNoise, DefaultMeasurementNoise)

VisualProcessFrame ==
    /\ IsVisual
    /\ ~native.disposed
    /\ \E in \in TrackerVisualInputs :
          LET out == AREngine_processFrame(arEngine, in)
          IN  /\ arEngine' = out.engine
              /\ native' = AREngine_processFrameBuffers(native, arEngine, in)
              /\ result' = out.result
              /\ tick' = History("processFrame", out.outcome)
              /\ streak' = NextStreak(out.outcome = "success", arEngine.planeConfidence)
    /\ UNCHANGED <<arMode, startup>>
    /\ UNCHANGED appVars
    /\ UNCHANGED poseFilter

VisualReset ==
    /\ IsVisual
    /\ arEngine' = AREngine_reset(arEngine)
    /\ tick' = History("reset",
                       IF arEngine.prevGrayFrame = Null THEN "threw" ELSE "done")
    /\ streak' = 0
    /\ UNCHANGED <<arMode, result>>
    /\ UNCHANGED appVars
    /\ UNCHANGED <<startup, native>>
    /\ UNCHANGED poseFilter

XRStartSession ==
    /\ arMode = "webxr"
    /\ ~arEngine.isSessionActive
    /\ arEngine' = WebXREngine_startSession(arEngine)
    /\ tick' = History("startSession", "done")
    /\ streak' = 0
    /\ UNCHANGED <<arMode, result>>
    /\ UNCHANGED appVars
    /\ UNCHANGED <<startup, native>>
    /\ UNCHANGED poseFilter

XRProcessFrame ==
    /\ arMode = "webxr"
    /\ \E in \in TrackerXRInputs :
          LET out == WebXREngine_processFrame(arEngine, in)
          IN  /\ arEngine' = out.engine
              /\ result' = out.result
              /\ tick' = History("processFrame", out.outcome)
              /\ streak' = NextStreak(out.outcome = "hit", arEngine.planeConfidence)
    /\ UNCHANGED arMode
    /\ UNCHANGED appVars
    /\ UNCHANGED <<startup, native>>
    /\ UNCHANGED poseFilter

XROnSessionEnd ==
    /\ arMode = "webxr"
    /\ arEngine.isSessionActive
    /\ arEngine' = WebXREngine_onSessionEnd(arEngine)
    /\ tick' = History("sessionEnd", "done")
    /\ streak' = 0
    /\ UNCHANGED <<arMode, result>>
    /\ UNCHANGED appVars
    /\ UNCHANGED <<startup, native>>
    /\ UNCHANGED poseFilter

XRReset ==
    /\ arMode = "webxr"
    /\ arEngine' = WebXREngine_reset(arEngine)
    /\ tick' = History("reset", "done")
    /\ streak' = 0
    /\ UNCHANGED <<arMode, result>>
    /\ UNCHANGED appVars
    /\ UNCHANGED <<startup, native>>
    /\ UNCHANGED poseFilter

TrackerNext ==
    \/ VisualProcessFrame
    \/ VisualReset
    \/ XRStartSession
    \/ XRProcessFrame
    \/ XROnSessionEnd
    \/ XRReset

Spec == TrackerInit /\ [][TrackerNext]_vars

(***************************************************************************)
(* The three trackers driven through their own interface.                  *)
(***************************************************************************)

TrackersInit ==
    /\ arMode \in {"opencv", "webxr", "location"}
    /\ arEngine = CASE arMode = "opencv" -> AREngineInit
                    [] arMode = "webxr" -> WebXREngineInit
                    [] arMode = "location" -> ARLocationEngineInit
    /\ result = EmptyResult
    /\ tick = History("init", "none")
    /\ streak = 0
    /\ isInitialized = FALSE
    /\ currentModel = Null
    /\ sceneManager = SceneManagerInit
    /\ cmd = Command("init", FALSE)
    /\ rafPending = FALSE
    /\ startup = Started
    /\ native = IF IsVisual THEN NativeInit ELSE NativeNone
    /\ poseFilter = PoseKalmanFilterInit(DefaultProcessNoise, DefaultMeasurementNoise)

\* init(): the success callback of getCurrentPosition stores the first fix
\* and starts the watch.
GeoInit ==
    /\ arMode = "location"
    /\ ~arEngine.isInitialized /\ arEngine.watchId = Null
    /\ \E position \in Positions :
          arEngine' = [ARLocationEngine_updateLocation(arEngine, position)
                          EXCEPT !.watchId = Num(1), !.isInitialized = TRUE]
    /\ tick' = History("init", "done")
    /\ UNCHANGED <<arMode, result, streak>>
    /\ UNCHANGED appVars
    /\ UNCHANGED <<startup, native>>
    /\ UNCHANGED poseFilter

\* The callback of watchPosition.
GeoUpdateLocation ==
    /\ arMode = "location"
    /\ arEngine.watchId # Null
    /\ \E position \in Positions :
          arEngine' = ARLocationEngine_updateLocation(arEngine, position)
    /\ tick' = History("updateLocation", "done")
    /\ UNCHANGED <<arMode, result, streak>>
    /\ UNCHANGED appVars
    /\ UNCHANGED <<startup, native>>
    /\ UNCHANGED poseFilter

\* setTargetLocation(latitude, longitude, altitude)
GeoSetTargetLocation ==
    /\ arMode = "location"
    /\ \E target \in Targets :
          arEngine' = ARLocationEngine_setTargetLocation(arEngine, target)
    /\ tick' = History("setTargetLocation", "done")
    /\ UNCHANGED <<arMode, result, streak>>
    /\ UNCHANGED appVars
    /\ UNCHANGED <<startup, native>>
    /\ UNCHANGED poseFilter

\* The listener of 'deviceorientationabsolute'.
GeoOrientation ==
    /\ arMode = "location"
    /\ \E alpha \in Headings :
          arEngine' = [arEngine EXCEPT !.deviceOrientation = [alpha |-> alpha]]
    /\ tick' = History("orientation", "done")
    /\ UNCHANGED <<arMode, result, streak>>
    /\ UNCHANGED appVars
    /\ UNCHANGED <<startup, native>>
    /\ UNCHANGED poseFilter

GeoProcessFrame ==
    /\ arMode = "location"
    /\ LET out == ARLocationEngine_processFrame(arEngine)
       IN  /\ arEngine' = out.engine
           /\ result' = out.result
           /\ tick' = History("processFrame", out.outcome)
    /\ UNCHANGED <<arMode, streak>>
    /\ UNCHANGED appVars
    /\ UNCHANGED <<startup, native>>
    /\ UNCHANGED poseFilter

GeoReset ==
    /\ arMode = "location"
    /\ arEngine' = ARLocationEngine_reset(arEngine)
    /\ tick' = History("reset", "done")
    /\ UNCHANGED <<arMode, result, streak>>
    /\ UNCHANGED appVars
    /\ UNCHANGED <<startup, native>>
    /\ UNCHANGED poseFilter

\* AREngine.dispose()
VisualDispose ==
    /\ IsVisual
    /\ LET d == AREngine_dispose(native)
       IN  /\ native' = d.native
           /\ tick' = History("dispose", IF d.threw THEN "threw" ELSE "done")
    /\ UNCHANGED <<arMode, arEngine, result, streak, startup>>
    /\ UNCHANGED appVars
    /\ UNCHANGED poseFilter

\* WebXREngine.dispose(): endSession() ends the session if there is one,
\* and the session's 'end' event runs onSessionEnd.
XRDispose ==
    /\ arMode = "webxr"
    /\ arEngine' = IF arEngine.xrSession
                   THEN WebXREngine_onSessionEnd(arEngine) ELSE arEngine
    /\ tick' = History("dispose", "done")
    /\ streak' = IF arEngine.xrSession THEN 0 ELSE streak
    /\ UNCHANGED <<arMode, result, startup, native>>
    /\ UNCHANGED appVars
    /\ UNCHANGED poseFilter

\* ARLocationEngine.dispose()
GeoDispose ==
    /\ arMode = "location"
    /\ arEngine' = ARLocationEngine_dispose(arEngine)
    /\ tick' = History("dispose", "done")
    /\ UNCHANGED <<arMode, result, streak, startup, native>>
    /\ UNCHANGED appVars
    /\ UNCHANGED poseFilter

TrackersNext ==
    \/ VisualProcessFrame
    \/ VisualReset
    \/ XRStartSession
    \/ XRProcessFrame
    \/ XROnSessionEnd
    \/ XRReset
    \/ GeoInit
    \/ GeoUpdateLocation
    \/ GeoSetTargetLocation
    \/ GeoOrientation
    \/ GeoProcessFrame
    \/ GeoReset
    \/ VisualDispose
    \/ XRDispose
    \/ GeoDispose

SpecTrackers == TrackersInit /\ [][TrackersNext]_vars

(***************************************************************************)
(* ARArchitectureApp: the frame loops and the commands of the UI.          *)
(* arMode is "opencv" or "webxr" for the app of src/src/main.js, and       *)
(* "unset" for the app of src/unnamed/part_000, which has no arMode and    *)
(* always runs the visual tracker.                                         *)
(***************************************************************************)

\* The objects ModelLoader resolves to.
BuiltinModels == {[kind |-> "model", id |-> "house"]}
CustomModels == {[kind |-> "model", id |-> "custom"]}
RotationSettings == {90}
ScaleSettings == {2}

\* Frames of the app's loops: a video frame with or without enough matches,
\* with an accepted or a rejected fit; an XRFrame with or without a hit.
AppVisualInputs ==
    {in \in VisualInputs :
        /\ in.size = <<1, 1>> /\ in.exc = "none" /\ in.nkp = KpMany
        /\ ~in.matchThrows /\ in.far = 0 /\ in.near = in.mid
        /\ ~in.homThrows /\ ~in.Hempty
        /\ (in.near > 0 => in.ransacAccepts /\ in.center # DefaultCenter)}
AppXRInputs ==
    {in \in XRInputs :
        /\ in.frame /\ in.viewerPose /\ in.views = 1
        /\ ~in.hitsThrow /\ in.hits = 1
        /\ in.position = DefaultHit}

\* sceneManager.updateCameraPose(pose): SceneManager defines no such method
\* (it defines updateCameraFromPose), so the call throws a TypeError.
SceneManager_updateCameraPose(s, pose) == [scene |-> s, threw |-> TRUE]

\* arEngine.reset() of the backend in use.
Engine_reset(e) ==
    CASE IsVisual -> AREngine_reset(e)
      [] arMode = "webxr" -> WebXREngine_reset(e)
      [] arMode = "location" -> ARLocationEngine_reset(e)

\* The fixes the watch delivers and the target typed into the GPS panel.
AppPositions == Positions
AppTargets ==
    {[kind |-> "target", latitude |-> HomeLatitude + 1000,
      longitude |-> HomeLongitude, altitude |-> 0]}

\* The app after init(): OpenCV mode and the legacy app run their loop at
\* once, WebXR mode waits for the "Start AR" button, location mode has its
\* first fix and its watch and runs its loop.
AppInit ==
    /\ arMode \in {"opencv", "webxr", "unset", "location"}
    /\ arEngine \in
          CASE IsVisual -> {AREngineInit}
            [] arMode = "webxr" -> {WebXREngineInit}
            [] arMode = "location" ->
                 {[ARLocationEngine_updateLocation(ARLocationEngineInit, p)
                      EXCEPT !.watchId = Num(1), !.isInitialized = TRUE] :
                    p \in AppPositions}
    /\ result = EmptyResult
    /\ tick = History("init", "none")
    /\ streak = 0
    /\ isInitialized = (arMode # "webxr")
    /\ currentModel = Null
    /\ sceneManager = SceneManagerInit
    /\ cmd = Command("init", FALSE)
    /\ rafPending = (arMode # "webxr")
    /\ startup = Started
    /\ native = IF IsVisual THEN NativeInit ELSE NativeNone
    /\ poseFilter = PoseKalmanFilterInit(DefaultProcessNoise, DefaultMeasurementNoise)

\* startARLoop's loop() of main.js: one animation frame in OpenCV mode.  The
\* try block catches what processFrame and the scene updates throw; render()
\* and requestAnimationFrame(loop) follow it.
ARLoop ==
    /\ arMode = "opencv"
    /\ isInitialized /\ rafPending
    /\ \E ready \in BOOLEAN, in \in AppVisualInputs :
          IF ~ready
          THEN /\ UNCHANGED <<arEngine, result, sceneManager, native>>
               /\ cmd' = FrameDone(0, 1, "after", FALSE, FALSE)
          ELSE LET out == AREngine_processFrame(arEngine, in)
                   r == out.result
                   cam == IF r.isTracking /\ currentModel # Null
                          THEN SceneManager_updateCameraPose(sceneManager, r.pose)
                          ELSE [scene |-> sceneManager, threw |-> FALSE]
                   ump == IF r.isTracking /\ currentModel # Null /\ ~cam.threw
                             /\ ~cam.scene.isModelPlaced
                          THEN SceneManager_updateModelPose(cam.scene, r.pose)
                          ELSE cam
               IN  /\ arEngine' = out.engine
                   /\ native' = AREngine_processFrameBuffers(native, arEngine, in)
                   /\ result' = r
                   /\ sceneManager' = ump.scene
                   /\ cmd' = FrameDone(1, 1, "after",
                                       r.isTracking /\ currentModel # Null, FALSE)
    /\ rafPending' = TRUE
    /\ UNCHANGED <<arMode, tick, streak, isInitialized, currentModel>>
    /\ UNCHANGED startup
    /\ UNCHANGED poseFilter

\* startARLoop's loop() of part_000.
LegacyARLoop ==
    /\ arMode = "unset"
    /\ isInitialized /\ rafPending
    /\ \E ready \in BOOLEAN, in \in AppVisualInputs :
          IF ~ready
          THEN /\ UNCHANGED <<arEngine, result, sceneManager, native>>
               /\ cmd' = FrameDone(0, 1, "after", FALSE, FALSE)
          ELSE LET out == AREngine_processFrame(arEngine, in)
                   r == out.result
                   ump == IF r.isTracking /\ currentModel # Null
                          THEN SceneManager_updateModelPose(sceneManager, r.pose)
                          ELSE [scene |-> sceneManager, threw |-> FALSE]
               IN  /\ arEngine' = out.engine
                   /\ native' = AREngine_processFrameBuffers(native, arEngine, in)
                   /\ result' = r
                   /\ sceneManager' = ump.scene
                   /\ cmd' = FrameDone(1, 1, "after",
                                       r.isTracking /\ currentModel # Null, FALSE)
    /\ rafPending' = TRUE
    /\ UNCHANGED <<arMode, tick, streak, isInitialized, currentModel>>
    /\ UNCHANGED startup
    /\ UNCHANGED poseFilter

\* The onclick handler of the "Start AR" button, when startSession resolves.
\* The handler removes the button and startWebXRLoop requests the first
\* frame of the session.
StartAR ==
    /\ arMode = "webxr"
    /\ ~isInitialized
    /\ arEngine' = WebXREngine_startSession(arEngine)
    /\ isInitialized' = TRUE
    /\ rafPending' = TRUE
    /\ cmd' = Command("startAR", TRUE)
    /\ UNCHANGED <<arMode, result, tick, streak, currentModel, sceneManager>>
    /\ UNCHANGED <<startup, native>>
    /\ UNCHANGED poseFilter

\* onXRFrame of startWebXRLoop: one frame of the session.  The next frame is
\* requested before the tick; nothing catches what updateModelPose throws,
\* and then render() is not reached.
XRFrame ==
    /\ arMode = "webxr"
    /\ isInitialized /\ arEngine.isSessionActive /\ rafPending
    /\ \E in \in AppXRInputs :
          LET out == WebXREngine_processFrame(arEngine, in)
              r == out.result
              s1 == IF r.viewerTransform # Null
                    THEN [sceneManager EXCEPT
                             !.camera = [position |-> r.viewerTransform.position,
                                         look |-> r.viewerTransform.look]]
                    ELSE sceneManager
              handed == r.isTracking /\ currentModel # Null /\ ~s1.isModelPlaced
              ump == IF handed
                     THEN SceneManager_updateModelPose(s1, r.pose)
                     ELSE [scene |-> s1, threw |-> FALSE]
          IN  /\ arEngine' = out.engine
              /\ result' = r
              /\ sceneManager' = ump.scene
              /\ cmd' = FrameDone(1, IF ump.threw THEN 0 ELSE 1, "before",
                                  handed, FALSE)
    /\ rafPending' = TRUE
    /\ UNCHANGED <<arMode, tick, streak, isInitialized, currentModel>>
    /\ UNCHANGED <<startup, native>>
    /\ UNCHANGED poseFilter

\* The session's 'end' event: the session delivers no further frame.
SessionEnd ==
    /\ arMode = "webxr"
    /\ arEngine.isSessionActive
    /\ arEngine' = WebXREngine_onSessionEnd(arEngine)
    /\ rafPending' = FALSE
    /\ cmd' = Command("sessionEnd", FALSE)
    /\ UNCHANGED <<arMode, result, tick, streak, isInitialized, currentModel,
                   sceneManager>>
    /\ UNCHANGED <<startup, native>>
    /\ UNCHANGED poseFilter

\* loop() of startLocationLoop: one animation frame in location mode.
\* Nothing catches what sceneManager.updateCameraPose throws, and then
\* neither render() nor requestAnimationFrame(loop) is reached.
LocationLoop ==
    /\ arMode = "location"
    /\ isInitialized /\ rafPending
    /\ LET out == ARLocationEngine_processFrame(arEngine)
           r == out.result
           cam == IF r.pose # Null
                  THEN SceneManager_updateCameraPose(sceneManager, r.pose)
                  ELSE [scene |-> sceneManager, threw |-> FALSE]
       IN  /\ arEngine' = out.engine
           /\ result' = r
           /\ sceneManager' = cam.scene
           /\ rafPending' = ~cam.threw
           /\ cmd' = IF cam.threw
                     THEN FrameDone(1, 0, "never", TRUE, FALSE)
                     ELSE FrameDone(1, 1, "after", FALSE, FALSE)
    /\ UNCHANGED <<arMode, tick, streak, isInitialized, currentModel>>
    /\ UNCHANGED <<startup, native>>
    /\ UNCHANGED poseFilter

\* The callback of watchPosition in location mode.
LocationFix ==
    /\ arMode = "location"
    /\ arEngine.watchId # Null
    /\ \E position \in AppPositions :
          arEngine' = ARLocationEngine_updateLocation(arEngine, position)
    /\ cmd' = Command("fix", FALSE)
    /\ UNCHANGED <<arMode, result, tick, streak, isInitialized, currentModel,
                   sceneManager, rafPending>>
    /\ UNCHANGED <<startup, native>>
    /\ UNCHANGED poseFilter

\* UIController.onSetGPSTarget() with valid coordinates.
SetGPSTarget ==
    /\ arMode = "location"
    /\ \E target \in AppTargets :
          arEngine' = ARLocationEngine_setTargetLocation(arEngine, target)
    /\ cmd' = Command("setTarget", TRUE)
    /\ UNCHANGED <<arMode, result, tick, streak, isInitialized, currentModel,
                   sceneManager, rafPending>>
    /\ UNCHANGED <<startup, native>>
    /\ UNCHANGED poseFilter

\* app.placeModel()
PlaceModel ==
    /\ LET placed == SceneManager_placeModel(sceneManager, arEngine.currentPose)
       IN  IF currentModel # Null /\ arEngine.currentPose # Null
           THEN /\ sceneManager' = placed.scene
                /\ cmd' = Command("place", placed.returned)
           ELSE /\ sceneManager' = sceneManager
                /\ cmd' = Command("place", FALSE)
    /\ UNCHANGED <<engineVars, isInitialized, currentModel, rafPending>>
    /\ UNCHANGED <<startup, native>>
    /\ UNCHANGED poseFilter

\* UIController.onReset(): app.resetModel().
ResetModel ==
    /\ sceneManager' = SceneManager_resetModel(sceneManager)
    /\ arEngine' = Engine_reset(arEngine)
    /\ cmd' = Command("reset", FALSE)
    /\ UNCHANGED <<arMode, result, tick, streak, isInitialized, currentModel,
                   rafPending>>
    /\ UNCHANGED <<startup, native>>
    /\ UNCHANGED poseFilter

\* UIController.loadModel(modelId), when the load succeeds: app.loadModel
\* followed by onReset().
LoadModel ==
    /\ \E m \in BuiltinModels :
          /\ currentModel' = m
          /\ sceneManager' =
                SceneManager_resetModel(SceneManager_setModel(sceneManager, m))
    /\ arEngine' = Engine_reset(arEngine)
    /\ cmd' = Command("load", TRUE)
    /\ UNCHANGED <<arMode, result, tick, streak, isInitialized, rafPending>>
    /\ UNCHANGED <<startup, native>>
    /\ UNCHANGED poseFilter

\* UIController.onCustomModelUpload(file), when the load succeeds:
\* app.loadCustomModel, with no reset.
LoadCustomModel ==
    /\ \E m \in CustomModels :
          /\ currentModel' = m
          /\ sceneManager' = SceneManager_setModel(sceneManager, m)
    /\ cmd' = Command("loadCustom", TRUE)
    /\ UNCHANGED <<engineVars, isInitialized, rafPending>>
    /\ UNCHANGED <<startup, native>>
    /\ UNCHANGED poseFilter

\* app.setModelRotation(degrees)
SetModelRotation ==
    /\ \E d \in RotationSettings :
          sceneManager' = SceneManager_setModelRotation(sceneManager, d)
    /\ cmd' = Command("rotate", FALSE)
    /\ UNCHANGED <<engineVars, isInitialized, currentModel, rafPending>>
    /\ UNCHANGED <<startup, native>>
    /\ UNCHANGED poseFilter

\* app.setModelScale(scale)
SetModelScale ==
    /\ \E k \in ScaleSettings :
          sceneManager' = SceneManager_setModelScale(sceneManager, k)
    /\ cmd' = Command("scale", FALSE)
    /\ UNCHANGED <<engineVars, isInitialized, currentModel, rafPending>>
    /\ UNCHANGED <<startup, native>>
    /\ UNCHANGED poseFilter

AppNext ==
    \/ ARLoop
    \/ LegacyARLoop
    \/ StartAR
    \/ XRFrame
    \/ SessionEnd
    \/ LocationLoop
    \/ LocationFix
    \/ SetGPSTarget
    \/ PlaceModel
    \/ ResetModel
    \/ LoadModel
    \/ LoadCustomModel
    \/ SetModelRotation
    \/ SetModelScale

SpecApp == AppInit /\ [][AppNext]_vars

(***************************************************************************)
(* app.init(): the choice of the backend, with its fallbacks.  Each action *)
(* is the code from one await to the next.                                 *)
(***************************************************************************)

\* The window listeners bindOrientation() and setupIMU() add; no code
\* removes them.
OrientationListeners == {"deviceorientationabsolute", "deviceorientation"}
IMUListeners == {"deviceorientation"}

\* An engine app.arEngine no longer refers to.
Orphan(backend, engine, subscriptions) ==
    [backend |-> backend, engine |-> engine, subscriptions |-> subscriptions]

\* The engine still has a window listener, a GPS watch or an XR session.
Live(o) ==
    \/ o.subscriptions # {}
    \/ o.backend = "location" /\ o.engine.watchId # Null
    \/ o.backend = "webxr" /\ o.engine.isSessionActive

\* initOpenCVMode() is entered.
EnterOpenCV(st) == [st EXCEPT !.pc = "cv_wait"]

\* An exception leaves initOpenCVMode() or the WebXR branch: the catch of
\* init() calls initOpenCVMode() once; thrown from there it is unhandled.
Throw(st) ==
    IF st.handler THEN [EnterOpenCV(st) EXCEPT !.handler = FALSE]
    ELSE [st EXCEPT !.pc = "failed"]

\* The page has loaded and the constructor of ARArchitectureApp has run.
StartupInit ==
    /\ arMode = "none"
    /\ arEngine = Null
    /\ result = EmptyResult
    /\ tick = History("init", "none")
    /\ streak = 0
    /\ isInitialized = FALSE
    /\ currentModel = Null
    /\ sceneManager = SceneManagerInit
    /\ cmd = Command("pageLoad", FALSE)
    /\ rafPending = FALSE
    /\ startup = [pc |-> "start", handler |-> TRUE, subscriptions |-> {},
                  orphans |-> {}]
    /\ native = NativeNone
    /\ poseFilter = PoseKalmanFilterInit(DefaultProcessNoise, DefaultMeasurementNoise)

\* init() with ?mode=outdoor: initLocationMode() up to the request for the
\* first fix.  bound: setupOrientation() binds the listeners at once.
BeginOutdoor ==
    /\ startup.pc = "start"
    /\ \E supported \in BOOLEAN, bound \in BOOLEAN :
          IF supported
          THEN /\ arMode' = "location"
               /\ arEngine' = ARLocationEngineInit
               /\ startup' = [startup EXCEPT
                     !.pc = "loc_gps",
                     !.subscriptions = IF bound THEN OrientationListeners ELSE {}]
          ELSE /\ startup' = EnterOpenCV(startup)
               /\ UNCHANGED <<arMode, arEngine>>
    /\ cmd' = Command("beginOutdoor", FALSE)
    /\ UNCHANGED <<result, tick, streak, isInitialized, currentModel,
                   sceneManager, rafPending, native>>
    /\ UNCHANGED poseFilter

\* init() without ?mode=outdoor, up to sceneManager.init().
BeginIndoor ==
    /\ startup.pc = "start"
    /\ \E supported \in BOOLEAN :
          IF supported
          THEN /\ arMode' = "webxr"
               /\ arEngine' = WebXREngineInit
               /\ startup' = [startup EXCEPT !.pc = "xr_scene"]
          ELSE /\ startup' = EnterOpenCV(startup)
               /\ UNCHANGED <<arMode, arEngine>>
    /\ cmd' = Command("beginIndoor", FALSE)
    /\ UNCHANGED <<result, tick, streak, isInitialized, currentModel,
                   sceneManager, rafPending, native>>
    /\ UNCHANGED poseFilter

\* getCurrentPosition answers: the first fix and the watch, or the rejection
\* that the catch of initLocationMode() turns into initOpenCVMode().
GPSAnswer ==
    /\ startup.pc = "loc_gps"
    /\ \E granted \in BOOLEAN, position \in Positions :
          IF granted
          THEN /\ arEngine' = [ARLocationEngine_updateLocation(arEngine, position)
                                  EXCEPT !.watchId = Num(1),
                                         !.isInitialized = TRUE]
               /\ startup' = [startup EXCEPT !.pc = "loc_scene"]
          ELSE /\ startup' = EnterOpenCV(startup)
               /\ UNCHANGED arEngine
    /\ cmd' = Command("gpsAnswer", FALSE)
    /\ UNCHANGED <<arMode, result, tick, streak, isInitialized, currentModel,
                   sceneManager, rafPending, native>>
    /\ UNCHANGED poseFilter

\* The engines that define setDebugVisible(visible), which the constructor
\* of UIController calls on app.arEngine through init().
HasSetDebugVisible(mode) == mode \in {"opencv", "unset"}

\* initLocationMode() from sceneManager.init() on: the scene is set up (ok)
\* and new UIController(this) returns, and the loop starts; or one of them
\* throws and the catch calls initOpenCVMode().
LocationSceneInit ==
    /\ startup.pc = "loc_scene"
    /\ \E ok \in BOOLEAN :
          /\ IF ok /\ HasSetDebugVisible(arMode)
             THEN /\ isInitialized' = TRUE
                  /\ rafPending' = TRUE
                  /\ startup' = [startup EXCEPT !.pc = "running"]
             ELSE /\ startup' = EnterOpenCV(startup)
                  /\ UNCHANGED <<isInitialized, rafPending>>
          /\ cmd' = Command("sceneInit", ok)
    /\ UNCHANGED <<arMode, arEngine, result, tick, streak, currentModel,
                   sceneManager, native>>
    /\ UNCHANGED poseFilter

\* The WebXR branch of init() from sceneManager.init() on: the scene is set
\* up (ok) and new UIController(this) returns, and the "Start AR" button is
\* shown; or one of them throws and the catch of init() runs.
XRSceneInit ==
    /\ startup.pc = "xr_scene"
    /\ \E ok \in BOOLEAN :
          /\ startup' = IF ok /\ HasSetDebugVisible(arMode)
                        THEN [startup EXCEPT !.pc = "running"]
                        ELSE Throw(startup)
          /\ cmd' = Command("sceneInit", ok)
    /\ UNCHANGED <<arMode, arEngine, result, tick, streak, isInitialized,
                   currentModel, sceneManager, rafPending, native>>
    /\ UNCHANGED poseFilter

\* initOpenCVMode(): OpenCV.js is ready and the camera is requested, or the
\* wait times out.
OpenCVReady ==
    /\ startup.pc = "cv_wait"
    /\ \E ready \in BOOLEAN :
          startup' = IF ready THEN [startup EXCEPT !.pc = "cv_camera"]
                     ELSE Throw(startup)
    /\ cmd' = Command("opencvReady", FALSE)
    /\ UNCHANGED <<arMode, arEngine, result, tick, streak, isInitialized,
                   currentModel, sceneManager, rafPending, native>>
    /\ UNCHANGED poseFilter

\* initCamera() answers: a new AREngine replaces app.arEngine and is
\* initialised; the engine it replaces is not disposed.
CameraAnswer ==
    /\ startup.pc = "cv_camera"
    /\ \E granted \in BOOLEAN :
          IF granted
          THEN /\ arMode' = "opencv"
               /\ arEngine' = AREngineInit
               /\ native' = NativeInit
               /\ startup' = [startup EXCEPT
                     !.pc = "cv_scene",
                     !.subscriptions = IMUListeners,
                     !.orphans = IF arEngine = Null THEN @
                                 ELSE @ \cup {Orphan(arMode, arEngine,
                                                     startup.subscriptions)}]
          ELSE /\ startup' = Throw(startup)
               /\ UNCHANGED <<arMode, arEngine, native>>
    /\ cmd' = Command("cameraAnswer", FALSE)
    /\ UNCHANGED <<result, tick, streak, isInitialized, currentModel,
                   sceneManager, rafPending>>
    /\ UNCHANGED poseFilter

\* initOpenCVMode() from sceneManager.init() on, new UIController(this)
\* included.
OpenCVSceneInit ==
    /\ startup.pc = "cv_scene"
    /\ \E ok \in BOOLEAN :
          /\ IF ok /\ HasSetDebugVisible(arMode)
             THEN /\ isInitialized' = TRUE
                  /\ rafPending' = TRUE
                  /\ startup' = [startup EXCEPT !.pc = "running"]
             ELSE /\ startup' = Throw(startup)
                  /\ UNCHANGED <<isInitialized, rafPending>>
          /\ cmd' = Command("sceneInit", ok)
    /\ UNCHANGED <<arMode, arEngine, result, tick, streak, currentModel,
                   sceneManager, native>>
    /\ UNCHANGED poseFilter

\* The callback of watchPosition of the engine app.arEngine refers to.
StartupFix ==
    /\ arMode = "location"
    /\ arEngine.watchId # Null
    /\ \E position \in Positions :
          arEngine' = ARLocationEngine_updateLocation(arEngine, position)
    /\ cmd' = Command("fix", FALSE)
    /\ UNCHANGED <<arMode, result, tick, streak, isInitialized, currentModel,
                   sceneManager, rafPending, startup, native>>
    /\ UNCHANGED poseFilter

\* The callback of watchPosition of an abandoned location engine.
OrphanFix ==
    /\ \E o \in startup.orphans, position \in Positions :
          /\ o.backend = "location"
          /\ o.engine.watchId # Null
          /\ startup' = [startup EXCEPT !.orphans =
                (@ \ {o}) \cup
                {[o EXCEPT !.engine =
                     ARLocationEngine_updateLocation(o.engine, position)]}]
    /\ cmd' = Command("orphanFix", FALSE)
    /\ UNCHANGED <<arMode, arEngine, result, tick, streak, isInitialized,
                   currentModel, sceneManager, rafPending, native>>
    /\ UNCHANGED poseFilter

\* UIController.onARModeChange(mode): confirmed, the page is loaded anew;
\* cancelled, the dropdown is reverted.
ARModeChange ==
    /\ startup.pc = "running"
    /\ \E confirmSwitch \in BOOLEAN :
          IF confirmSwitch
          THEN /\ arMode' = "none"
               /\ arEngine' = Null
               /\ isInitialized' = FALSE
               /\ rafPending' = FALSE
               /\ startup' = [pc |-> "start", handler |-> TRUE,
                              subscriptions |-> {}, orphans |-> {}]
               /\ native' = NativeNone
               /\ cmd' = Command("reload", TRUE)
          ELSE /\ cmd' = Command("modeChange", FALSE)
               /\ UNCHANGED <<arMode, arEngine, isInitialized, rafPending,
                              startup, native>>
    /\ UNCHANGED <<result, tick, streak, currentModel, sceneManager>>
    /\ UNCHANGED poseFilter

StartupNext ==
    \/ BeginOutdoor
    \/ BeginIndoor
    \/ GPSAnswer
    \/ LocationSceneInit
    \/ XRSceneInit
    \/ OpenCVReady
    \/ CameraAnswer
    \/ OpenCVSceneInit
    \/ StartupFix
    \/ OrphanFix
    \/ ARModeChange

SpecStartup == StartupInit /\ [][StartupNext]_vars

(***************************************************************************)
(* The scene manager driven through its own interface.                     *)
(***************************************************************************)

\* Plane centres handed to updateModelPose: PlaneCenters and a point on the
\* top edge of the screen, whose ray from the initial camera runs parallel
\* to the ground.
ScenePlaneCenters == PlaneCenters \cup {<<2, 0>>}
ScenePoses ==
    {[kind |-> "visual", planeCenter |-> c, confidence |-> 0] :
        c \in ScenePlaneCenters}

SceneInit ==
    /\ arMode = "unset"
    /\ arEngine = AREngineInit
    /\ result = EmptyResult
    /\ tick = History("init", "none")
    /\ streak = 0
    /\ isInitialized = TRUE
    /\ currentModel = Null
    /\ sceneManager = SceneManagerInit
    /\ cmd = Command("init", FALSE)
    /\ rafPending = FALSE
    /\ startup = Started
    /\ native = NativeInit
    /\ poseFilter = PoseKalmanFilterInit(DefaultProcessNoise, DefaultMeasurementNoise)

\* setModel(model)
SceneSetModel ==
    /\ \E m \in BuiltinModels \cup CustomModels :
          /\ currentModel' = m
          /\ sceneManager' = SceneManager_setModel(sceneManager, m)
    /\ cmd' = Command("setModel", FALSE)
    /\ UNCHANGED <<engineVars, isInitialized, rafPending, startup, native>>
    /\ UNCHANGED poseFilter

\* updateModelPose(pose)
SceneUpdateModelPose ==
    /\ \E pose \in ScenePoses :
          sceneManager' = SceneManager_updateModelPose(sceneManager, pose).scene
    /\ cmd' = Command("updateModelPose", FALSE)
    /\ UNCHANGED <<engineVars, isInitialized, currentModel, rafPending,
                   startup, native>>
    /\ UNCHANGED poseFilter

\* placeModel(pose) with the last pose
ScenePlaceModel ==
    /\ LET placed == SceneManager_placeModel(sceneManager, sceneManager.lastPose)
       IN  /\ sceneManager' = placed.scene
           /\ cmd' = Command("place", placed.returned)
    /\ UNCHANGED <<engineVars, isInitialized, currentModel, rafPending,
                   startup, native>>
    /\ UNCHANGED poseFilter

\* resetModel()
SceneResetModel ==
    /\ sceneManager' = SceneManager_resetModel(sceneManager)
    /\ cmd' = Command("reset", FALSE)
    /\ UNCHANGED <<engineVars, isInitialized, currentModel, rafPending,
                   startup, native>>
    /\ UNCHANGED poseFilter

\* The camera is moved from outside (onXRFrame sets position and
\* quaternion from the viewer transform).
SceneSetCamera ==
    /\ \E v \in ViewerTransforms :
          sceneManager' = [sceneManager EXCEPT
              !.camera = [position |-> v.position, look |-> v.look]]
    /\ cmd' = Command("camera", FALSE)
    /\ UNCHANGED <<engineVars, isInitialized, currentModel, rafPending,
                   startup, native>>
    /\ UNCHANGED poseFilter

\* setModelRotation(degrees)
SceneSetModelRotation ==
    /\ \E d \in RotationSettings :
          sceneManager' = SceneManager_setModelRotation(sceneManager, d)
    /\ cmd' = Command("rotate", FALSE)
    /\ UNCHANGED <<engineVars, isInitialized, currentModel, rafPending,
                   startup, native>>
    /\ UNCHANGED poseFilter

SceneNext ==
    \/ SceneSetModel
    \/ SceneUpdateModelPose
    \/ ScenePlaceModel
    \/ SceneResetModel
    \/ SceneSetCamera
    \/ SceneSetModelRotation

SpecScene == SceneInit /\ [][SceneNext]_vars

(***************************************************************************)
(* The pose filter driven through its own interface.                       *)
(***************************************************************************)

\* Calls of filter() between two resets.
MaxCalls == 6

\* Noises a PoseKalmanFilter is constructed with, and poses it is fed.
NoisePairs ==
    {<<DefaultProcessNoise, DefaultMeasurementNoise>>,
     <<DefaultMeasurementNoise, DefaultProcessNoise>>}
FilterPoses ==
    {[kind |-> "visual", position |-> <<2000, 0 - 500, 0>>,
      rotation |-> <<0, 1571, 0 - 3142>>, planeCenter |-> <<2, 2>>,
      confidence |-> 60],
     [kind |-> "visual", position |-> <<0 - 1500, 700, 0 - 3000>>,
      rotation |-> <<785, 0, 0>>, planeCenter |-> <<4, 4>>,
      confidence |-> 75]}

\* History of the filter: the last operation, whether every pose since the
\* last reset was the same one, and the calls of filter() since then.
FilterHistory(op, same, calls) == [op |-> op, same |-> same, calls |-> calls]

KalmanInit ==
    /\ arMode = "unset"
    /\ arEngine = AREngineInit
    /\ result = EmptyResult
    /\ tick = FilterHistory("init", TRUE, 0)
    /\ streak = 0
    /\ isInitialized = FALSE
    /\ currentModel = Null
    /\ sceneManager = SceneManagerInit
    /\ cmd = Command("init", FALSE)
    /\ rafPending = FALSE
    /\ startup = Started
    /\ native = NativeInit
    /\ \E n \in NoisePairs : poseFilter = PoseKalmanFilterInit(n[1], n[2])

\* poseFilter.filter(pose) for the pose of a tracking result.
FilterPose ==
    /\ tick.calls < MaxCalls
    /\ \E pose \in FilterPoses :
          LET out == PoseKalmanFilter_filter(poseFilter, pose)
          IN  /\ poseFilter' = out.bank
              /\ result' = [EmptyResult EXCEPT !.isTracking = TRUE, !.pose = pose]
              /\ cmd' = Command("filter", out.returned)
              /\ tick' = FilterHistory("filter",
                            tick.same /\ (tick.calls = 0 \/ result.pose = pose),
                            tick.calls + 1)
    /\ UNCHANGED <<arMode, arEngine, streak, isInitialized, currentModel,
                   sceneManager, rafPending, startup, native>>

\* poseFilter.filter(null)
FilterNoPose ==
    /\ LET out == PoseKalmanFilter_filter(poseFilter, Null)
       IN  /\ poseFilter' = out.bank
           /\ cmd' = Command("filterNull", out.returned)
    /\ tick' = [tick EXCEPT !.op = "filterNull"]
    /\ UNCHANGED <<arMode, arEngine, result, streak, isInitialized,
                   currentModel, sceneManager, rafPending, startup, native>>

\* poseFilter.reset()
FilterReset ==
    /\ poseFilter' = PoseKalmanFilter_reset(poseFilter)
    /\ tick' = FilterHistory("reset", TRUE, 0)
    /\ cmd' = Command("reset", FALSE)
    /\ UNCHANGED <<arMode, arEngine, result, streak, isInitialized,
                   currentModel, sceneManager, rafPending, startup, native>>

KalmanNext ==
    \/ FilterPose
    \/ FilterNoPose
    \/ FilterReset

SpecKalman == KalmanInit /\ [][KalmanNext]_vars

(***************************************************************************)
(* calculateBearing applied to pairs of coordinates.                       *)
(***************************************************************************)

\* Whole degrees of latitude above the equator.
MaxDegrees == 2
MicroDegrees == 1000000

\* Coordinates a degree apart around (0, 0).
BearingPoints ==
    {<<lat * MicroDegrees, lon * MicroDegrees>> :
        lat \in (0 - 1) .. MaxDegrees, lon \in {0 - 1, 0, 1}}

BearingInit ==
    /\ arMode = "location"
    /\ arEngine = ARLocationEngineInit
    /\ result = EmptyResult
    /\ tick = History("init", "done")
    /\ streak = 0
    /\ isInitialized = FALSE
    /\ currentModel = Null
    /\ sceneManager = SceneManagerInit
    /\ cmd = Command("init", FALSE)
    /\ rafPending = FALSE
    /\ startup = Started
    /\ native = NativeNone
    /\ poseFilter = PoseKalmanFilterInit(DefaultProcessNoise, DefaultMeasurementNoise)

\* calculateBearing(from, to)
ComputeBearing ==
    /\ \E from \in BearingPoints, to \in BearingPoints :
          cmd' = [op |-> "bearing", from |-> from, to |-> to,
                  returned |-> calculateBearing(from[1], from[2], to[1], to[2])]
    /\ UNCHANGED <<arMode, arEngine, result, tick, streak, isInitialized,
                   currentModel, sceneManager, rafPending, startup, native,
                   poseFilter>>

BearingNext ==
    \/ ComputeBearing

SpecBearing == BearingInit /\ [][BearingNext]_vars

(***************************************************************************)
(* The visual tracker's objects through ticks and settings updates.        *)
(***************************************************************************)

\* Features a tick finds, and where it throws.
ObjectFeatureCounts == {0, KpFew, KpMany}
ObjectExceptions == {"none", "capture", "detect", "track", "debug"}

\* History of the objects: the last operation, whether it ran to its end,
\* and the features it found.
ObjectHistory(op, completed, n) == [op |-> op, completed |-> completed, n |-> n]

ObjectsSpecInit ==
    /\ arMode = "opencv"
    /\ arEngine = AREngineInit
    /\ result = EmptyResult
    /\ tick = ObjectHistory("init", TRUE, 0)
    /\ streak = 0
    /\ isInitialized = TRUE
    /\ currentModel = Null
    /\ sceneManager = SceneManagerInit
    /\ cmd = Command("init", FALSE)
    /\ rafPending = FALSE
    /\ startup = Started
    /\ native = ObjectsInit
    /\ poseFilter = PoseKalmanFilterInit(DefaultProcessNoise, DefaultMeasurementNoise)

\* processFrame(video) with a frame of valid dimensions.
ObjectsProcessFrame ==
    /\ \E n \in ObjectFeatureCounts, exc \in ObjectExceptions :
          LET out == processFrameObjects(native, n, exc)
          IN  /\ native' = out.objects
              /\ tick' = ObjectHistory("processFrame", out.completed, n)
    /\ UNCHANGED <<arMode, arEngine, result, streak, isInitialized,
                   currentModel, sceneManager, cmd, rafPending, startup,
                   poseFilter>>

\* processFrame(video) with a frame of zero width or height: the early
\* return.
ObjectsInvalidFrame ==
    /\ native' = Aged(native)
    /\ tick' = ObjectHistory("invalidFrame", FALSE, 0)
    /\ UNCHANGED <<arMode, arEngine, result, streak, isInitialized,
                   currentModel, sceneManager, cmd, rafPending, startup,
                   poseFilter>>

\* updateSettings(settings)
ObjectsUpdateSettings ==
    /\ \E given \in BOOLEAN :
          /\ native' = updateSettingsObjects(native, given)
          /\ tick' = ObjectHistory("updateSettings", TRUE, 0)
          /\ cmd' = Command("updateSettings", given)
    /\ UNCHANGED <<arMode, arEngine, result, streak, isInitialized,
                   currentModel, sceneManager, rafPending, startup,
                   poseFilter>>

ObjectsNext ==
    \/ ObjectsProcessFrame
    \/ ObjectsInvalidFrame
    \/ ObjectsUpdateSettings

SpecObjects == ObjectsSpecInit /\ [][ObjectsNext]_vars

(***************************************************************************)
(* init() of the hit-test and the geodetic backend, with the answers of    *)
(* the browser.                                                            *)
(***************************************************************************)

\* After the constructor of WebXREngine and of ARLocationEngine.
WebXREngineConstructed == [WebXREngineInit EXCEPT !.isSupported = FALSE]
ARLocationEngineConstructed == [ARLocationEngineInit EXCEPT !.isSupported = FALSE]

\* navigator.xr is absent, or isSessionSupported('immersive-ar') answers
\* true or false or rejects.
XRSupportAnswers == {"absent", "yes", "no", "throws"}
\* requestSession is refused, or it is granted and a later request of
\* startSession rejects, or all of them resolve.
XRSessionAnswers == {"denied", "spaceFails", "granted"}
\* getCurrentPosition calls back with a fix or with an error, or
\* navigator.geolocation is falsy.
GPSAnswers == {"fix", "denied", "unavailable"}

\* WebXREngine.checkSupport(): [engine, returned]
WebXREngine_checkSupport(e, answer) ==
    IF answer \in {"yes", "no"}
    THEN [engine |-> [e EXCEPT !.isSupported = (answer = "yes")],
          returned |-> answer = "yes"]
    ELSE [engine |-> e, returned |-> FALSE]

\* WebXREngine.init(): [engine, rejected]
WebXREngine_init(e, answer) ==
    LET c == WebXREngine_checkSupport(e, answer)
    IN  [engine |-> c.engine, rejected |-> ~c.returned]

\* startSession(canvas) with its guard and its failures: [engine, rejected]
WebXREngine_startSessionAnswered(e, answer) ==
    IF ~e.isSupported THEN [engine |-> e, rejected |-> TRUE]
    ELSE CASE answer = "denied" -> [engine |-> e, rejected |-> TRUE]
           [] answer = "spaceFails" ->
                [engine |-> [e EXCEPT !.xrSession = TRUE], rejected |-> TRUE]
           [] answer = "granted" ->
                [engine |-> WebXREngine_startSession(e), rejected |-> FALSE]

\* ARLocationEngine.checkSupport()
ARLocationEngine_checkSupport(e, hasGeolocation, hasOrientation) ==
    [e EXCEPT !.isSupported = hasGeolocation /\ hasOrientation]

\* startGPSTracking() that starts the watch before the first fix is in.
StartGPSWatchFirst(e, answer, position) ==
    IF answer = "fix"
    THEN [engine |-> [ARLocationEngine_updateLocation(e, position)
                         EXCEPT !.watchId = Num(1)],
          rejected |-> FALSE]
    ELSE [engine |-> [e EXCEPT !.watchId = Num(1)], rejected |-> TRUE]

\* startGPSTracking(), when getCurrentPosition has answered: [engine, rejected]
startGPSTracking(e, answer, position) ==
    IF answer = "fix"
    THEN [engine |-> [ARLocationEngine_updateLocation(e, position)
                         EXCEPT !.watchId = Num(1)],
          rejected |-> FALSE]
    ELSE [engine |-> e, rejected |-> TRUE]

\* ARLocationEngine.init() after `await this.startGPSTracking()`.
ARLocationEngine_initEnd(e, answer, position) ==
    LET g == startGPSTracking(e, answer, position)
    IN  IF g.rejected THEN g
        ELSE [engine |-> [g.engine EXCEPT !.isInitialized = TRUE],
              rejected |-> FALSE]

\* Where init() stands and the window listeners of the engine.
InitProgress(pc, subscriptions) ==
    [pc |-> pc, handler |-> FALSE, subscriptions |-> subscriptions,
     orphans |-> {}]

\* The outcome of a promise.
Settled(rejected) == IF rejected THEN "rejected" ELSE "resolved"

BackendInit ==
    /\ arMode \in {"webxr", "location"}
    /\ arEngine = IF arMode = "webxr" THEN WebXREngineConstructed
                  ELSE ARLocationEngineConstructed
    /\ result = EmptyResult
    /\ tick = History("constructor", "none")
    /\ streak = 0
    /\ isInitialized = FALSE
    /\ currentModel = Null
    /\ sceneManager = SceneManagerInit
    /\ cmd = Command("constructor", "resolved")
    /\ rafPending = FALSE
    /\ startup = InitProgress("idle", {})
    /\ native = NativeNone
    /\ poseFilter = PoseKalmanFilterInit(DefaultProcessNoise, DefaultMeasurementNoise)

\* webxrEngine.checkSupport()
XRCheckSupport ==
    /\ arMode = "webxr"
    /\ \E answer \in XRSupportAnswers :
          LET out == WebXREngine_checkSupport(arEngine, answer)
          IN  /\ arEngine' = out.engine
              /\ tick' = History("checkSupport", answer)
              /\ cmd' = Command("checkSupport", "resolved")
    /\ UNCHANGED <<arMode, result, streak, isInitialized, currentModel,
                   sceneManager, rafPending, startup, native>>
    /\ UNCHANGED poseFilter

\* webxrEngine.init()
XRInit ==
    /\ arMode = "webxr"
    /\ \E answer \in XRSupportAnswers :
          LET out == WebXREngine_init(arEngine, answer)
          IN  /\ arEngine' = out.engine
              /\ tick' = History("init", IF answer = "yes" THEN "supported"
                                         ELSE "unsupported")
              /\ cmd' = Command("init", Settled(out.rejected))
    /\ UNCHANGED <<arMode, result, streak, isInitialized, currentModel,
                   sceneManager, rafPending, startup, native>>
    /\ UNCHANGED poseFilter

\* webxrEngine.startSession(canvas), from the "Start AR" button.
XRStartSessionAnswered ==
    /\ arMode = "webxr"
    /\ ~arEngine.xrSession
    /\ \E answer \in XRSessionAnswers :
          LET out == WebXREngine_startSessionAnswered(arEngine, answer)
          IN  /\ arEngine' = out.engine
              /\ tick' = History("startSession", answer)
              /\ cmd' = Command("startSession", Settled(out.rejected))
    /\ UNCHANGED <<arMode, result, streak, isInitialized, currentModel,
                   sceneManager, rafPending, startup, native>>
    /\ UNCHANGED poseFilter

\* The 'end' event of the session.
XRSessionEnded ==
    /\ arMode = "webxr"
    /\ arEngine.isSessionActive
    /\ arEngine' = WebXREngine_onSessionEnd(arEngine)
    /\ tick' = History("onSessionEnd", "done")
    /\ cmd' = Command("onSessionEnd", "resolved")
    /\ UNCHANGED <<arMode, result, streak, isInitialized, currentModel,
                   sceneManager, rafPending, startup, native>>
    /\ UNCHANGED poseFilter

\* locationEngine.checkSupport()
LocationCheckSupport ==
    /\ arMode = "location"
    /\ startup.pc = "idle"
    /\ \E hasGeolocation \in BOOLEAN, hasOrientation \in BOOLEAN :
          arEngine' = ARLocationEngine_checkSupport(arEngine, hasGeolocation,
                                                    hasOrientation)
    /\ tick' = History("checkSupport", "done")
    /\ cmd' = Command("checkSupport", "resolved")
    /\ UNCHANGED <<arMode, result, streak, isInitialized, currentModel,
                   sceneManager, rafPending, startup, native>>
    /\ UNCHANGED poseFilter

\* locationEngine.init() up to `await this.startGPSTracking()`: it throws
\* when isSupported is false; else setupOrientation() binds the listeners
\* (bound) or asks for the permission to, and the first fix is requested.
LocationInitBegin ==
    /\ arMode = "location"
    /\ startup.pc = "idle"
    /\ ~arEngine.isInitialized
    /\ IF ~arEngine.isSupported
       THEN /\ tick' = History("init", "unsupported")
            /\ cmd' = Command("init", "rejected")
            /\ UNCHANGED startup
       ELSE \E bound \in BOOLEAN :
              /\ startup' = InitProgress("gps",
                     IF bound THEN OrientationListeners
                     ELSE startup.subscriptions)
              /\ tick' = History("init", "pending")
              /\ cmd' = Command("init", "pending")
    /\ UNCHANGED <<arMode, arEngine, result, streak, isInitialized,
                   currentModel, sceneManager, rafPending, native>>
    /\ UNCHANGED poseFilter

\* locationEngine.init() from the answer of getCurrentPosition on.
LocationInitEnd ==
    /\ arMode = "location"
    /\ startup.pc = "gps"
    /\ \E answer \in GPSAnswers, position \in Positions :
          LET out == ARLocationEngine_initEnd(arEngine, answer,
                        IF answer = "fix" THEN position
                        ELSE CHOOSE p \in Positions : TRUE)
          IN  /\ arEngine' = out.engine
              /\ tick' = History("init", answer)
              /\ cmd' = Command("init", Settled(out.rejected))
    /\ startup' = InitProgress("idle", startup.subscriptions)
    /\ UNCHANGED <<arMode, result, streak, isInitialized, currentModel,
                   sceneManager, rafPending, native>>
    /\ UNCHANGED poseFilter

\* The callback of watchPosition.
LocationWatchFix ==
    /\ arMode = "location"
    /\ arEngine.watchId # Null
    /\ \E position \in Positions :
          arEngine' = ARLocationEngine_updateLocation(arEngine, position)
    /\ tick' = History("updateLocation", "done")
    /\ cmd' = Command("updateLocation", "resolved")
    /\ UNCHANGED <<arMode, result, streak, isInitialized, currentModel,
                   sceneManager, rafPending, startup, native>>
    /\ UNCHANGED poseFilter

\* setTargetLocation(latitude, longitude, altitude)
LocationSetTarget ==
    /\ arMode = "location"
    /\ \E target \in Targets :
          arEngine' = ARLocationEngine_setTargetLocation(arEngine, target)
    /\ tick' = History("setTargetLocation", "done")
    /\ cmd' = Command("setTargetLocation", "resolved")
    /\ UNCHANGED <<arMode, result, streak, isInitialized, currentModel,
                   sceneManager, rafPending, startup, native>>
    /\ UNCHANGED poseFilter

BackendNext ==
    \/ XRCheckSupport
    \/ XRInit
    \/ XRStartSessionAnswered
    \/ XRSessionEnded
    \/ LocationCheckSupport
    \/ LocationInitBegin
    \/ LocationInitEnd
    \/ LocationWatchFix
    \/ LocationSetTarget

SpecBackendInit == BackendInit /\ [][BackendNext]_vars

(***************************************************************************)
(* Model loads in flight: app.loadModel and app.loadCustomModel from the   *)
(* request to the model loader up to the answer of the loader.             *)
(***************************************************************************)

\* Loads requested in one run.
MaxLoads == 3

\* The models of the model panel and the uploaded file.
LoadableModels ==
    BuiltinModels \cup {[kind |-> "model", id |-> "office"]} \cup CustomModels

\* A load the loader has not answered yet.
Load(seq, model) == [seq |-> seq, model |-> model]

\* The loads in flight, the model requested last, the number of requests,
\* whether a request was made while another was in flight, and whether a
\* load failed.
LoadHistory(pending, requested, count, overlapped, failed) ==
    [pending |-> pending, requested |-> requested, count |-> count,
     overlapped |-> overlapped, failed |-> failed]

LoadsInit ==
    /\ arMode = "webxr"
    /\ arEngine = WebXREngineInit
    /\ result = EmptyResult
    /\ tick = LoadHistory({}, Null, 0, FALSE, FALSE)
    /\ streak = 0
    /\ isInitialized = TRUE
    /\ currentModel = Null
    /\ sceneManager = SceneManagerInit
    /\ cmd = Command("init", FALSE)
    /\ rafPending = FALSE
    /\ startup = Started
    /\ native = NativeNone
    /\ poseFilter = PoseKalmanFilterInit(DefaultProcessNoise, DefaultMeasurementNoise)

\* onModelSelect(modelId) or onCustomModelUpload(file) up to the await of
\* modelLoader.loadModel(modelId) or modelLoader.loadFromFile(file).
RequestLoad ==
    /\ tick.count < MaxLoads
    /\ \E m \in LoadableModels :
          tick' = LoadHistory(tick.pending \cup {Load(tick.count + 1, m)}, m,
                              tick.count + 1,
                              tick.overlapped \/ tick.pending # {},
                              tick.failed)
    /\ cmd' = Command("requestLoad", FALSE)
    /\ UNCHANGED <<arMode, arEngine, result, streak, isInitialized,
                   currentModel, sceneManager, rafPending, startup, native>>
    /\ UNCHANGED poseFilter

\* The loader answers one of the loads with a model: the rest of
\* app.loadModel and UIController.loadModel (with onReset()), or of
\* app.loadCustomModel (without).
CompleteLoad ==
    /\ \E p \in tick.pending :
          /\ tick' = [tick EXCEPT !.pending = @ \ {p}]
          /\ currentModel' = p.model
          /\ IF p.model \in CustomModels
             THEN /\ sceneManager' = SceneManager_setModel(sceneManager, p.model)
                  /\ UNCHANGED arEngine
             ELSE /\ sceneManager' = SceneManager_resetModel(
                                        SceneManager_setModel(sceneManager, p.model))
                  /\ arEngine' = Engine_reset(arEngine)
    /\ cmd' = Command("load", TRUE)
    /\ UNCHANGED <<arMode, result, streak, isInitialized, rafPending,
                   startup, native>>
    /\ UNCHANGED poseFilter

\* The loader rejects one of the loads: the catch returns false.
FailLoad ==
    /\ \E p \in tick.pending :
          tick' = [tick EXCEPT !.pending = @ \ {p}, !.failed = TRUE]
    /\ cmd' = Command("load", FALSE)
    /\ UNCHANGED <<arMode, arEngine, result, streak, isInitialized,
                   currentModel, sceneManager, rafPending, startup, native>>
    /\ UNCHANGED poseFilter

LoadsNext ==
    \/ RequestLoad
    \/ CompleteLoad
    \/ FailLoad

SpecLoads == LoadsInit /\ [][LoadsNext]_vars

(***************************************************************************)
(* Properties of the trackers (checked under Spec).                        *)
(***************************************************************************)

Confidence == arEngine.planeConfidence
Ticked == tick.op = "processFrame"
\* A tick that looked for the plane and did not find it.
FailedOutcomes == {"notrack", "noplane", "miss"}

\* C1: a result with isTracking = true is only returned with confidence
\* strictly above 0.5; at 0.5 or below the returned result is not tracking.
C1_TrackingOnlyAboveThreshold ==
    Ticked =>
        /\ result.isTracking => Confidence > TrackingThreshold
        /\ Confidence <= TrackingThreshold => ~result.isTracking

C1_Witness ==
    /\ arMode = "opencv" /\ Ticked /\ tick.outcome = "success"
    /\ result.isTracking /\ Confidence = TrackingThreshold + 5

\* C2: a failed tick reports isTracking = false only when confidence has
\* decayed to 0.5 or below (one-sided hysteresis).
C2_FailedTickKeepsTracking ==
    (Ticked /\ tick.outcome \in FailedOutcomes /\ Confidence > TrackingThreshold)
        => result.isTracking

\* C3: plane confidence stays within [0, 1] in every reachable state.
C3_ConfidenceInRange ==
    Confidence >= ConfidenceFloor /\ Confidence <= ConfidenceCap

C3_Witness ==
    /\ Ticked /\ tick.outcome \in {"success", "hit"}
    /\ Confidence = ConfidenceCap /\ streak = 0

\* C4: counted from confidence 0, the first three successful detections in a
\* row (0.15, 0.30, 0.45) report isTracking = false and the fourth (0.60)
\* reports isTracking = true.
C4_FourthDetectionTracks ==
    /\ streak \in 1..3 =>
          Ticked /\ ~result.isTracking /\ Confidence = streak * RampStep
    /\ streak = 4 =>
          Ticked /\ result.isTracking /\ Confidence = 4 * RampStep

C4_Witness ==
    /\ streak = 4 /\ result.isTracking /\ arMode = "opencv"
    /\ tick.outcome = "success"

\* C5: every failed tick of the visual tracker (too few surviving matches, a
\* rejected or failed fit, an exception during matching or frame processing)
\* lowers confidence by exactly 0.10, floored at 0.
C5_EveryFailureDecays ==
    [][(/\ arMode = "opencv"
        /\ tick'.op = "processFrame"
        /\ tick'.outcome \in {"notrack", "noplane", "exception"})
       => arEngine'.planeConfidence = Max(ConfidenceFloor, Confidence - DecayStep)]_vars

\* C6: with an active session, a tick with at least one hit-test result
\* raises confidence by 0.15 (capped) and returns a pose; a tick without one
\* lowers it by 0.10 (floored) and returns pose = null.
C6_HitRampsMissDecays ==
    [][(/\ arMode = "webxr"
        /\ tick'.op = "processFrame"
        /\ tick'.outcome \in {"hit", "nullpose", "miss"})
       => IF arEngine'.hitTestResults > 0
          THEN /\ arEngine'.planeConfidence = Min(ConfidenceCap, Confidence + RampStep)
               /\ result'.pose # Null
          ELSE /\ arEngine'.planeConfidence = Max(ConfidenceFloor, Confidence - DecayStep)
               /\ result'.pose = Null]_vars

(***************************************************************************)
(* Properties of placement (checked under SpecApp).                        *)
(***************************************************************************)

Placed == sceneManager.isModelPlaced
Position == sceneManager.modelGroup.position

\* Where the ray through the crosshair meets the ground, by similar
\* triangles: a camera looking down along (0, -1, -2) from height h meets
\* y = 0 at 2h in front of it; a level camera never does.
CrosshairGroundPoint(camera) ==
    IF camera.look = "down"
    THEN <<camera.position[1], 0, camera.position[3] - 2 * camera.position[2]>>
    ELSE Null

\* Poses a caller can hand to placeModel.
PoseHints ==
    {Null} \cup {[kind |-> "visual", planeCenter |-> c, confidence |-> 0] :
                    c \in PlaneCenters}

\* C7: once the model is placed, no step other than a reset (resetModel, or
\* a model load, which resets) changes the position of the model; further
\* place commands are among the steps that must not move it.
C7_PlacedPositionStable ==
    [][(Placed /\ cmd'.op \notin {"reset", "load"})
          => sceneManager'.modelGroup.position = Position]_vars

\* C8 as stated: a successful place command puts the model where the ray
\* through the screen centre meets the ground, whatever pose it was handed,
\* marks it placed and gives it the yaw of the rotation setting.
C8_PlacedAtCrosshair ==
    [][(cmd'.op = "place" /\ cmd'.returned)
          => /\ sceneManager'.isModelPlaced
             /\ CrosshairGroundPoint(sceneManager.camera) # Null
             /\ sceneManager'.modelGroup.position =
                   CrosshairGroundPoint(sceneManager.camera)
             /\ sceneManager'.modelGroup.rotationY =
                   DegToRad(sceneManager.modelRotation)
             /\ \A hint \in PoseHints :
                   SceneManager_placeModel(sceneManager, hint).scene
                      = sceneManager']_vars

\* C8 amended: as C8, except that when the ray through the screen centre
\* does not meet the ground the model is put at the fixed point (0, 0, -2).
C8_PlacedAtCrosshairOrFallback ==
    [][(cmd'.op = "place" /\ cmd'.returned)
          => /\ sceneManager'.isModelPlaced
             /\ sceneManager'.modelGroup.position =
                   (IF CrosshairGroundPoint(sceneManager.camera) # Null
                    THEN CrosshairGroundPoint(sceneManager.camera)
                    ELSE FallbackPosition)
             /\ sceneManager'.modelGroup.rotationY =
                   DegToRad(sceneManager.modelRotation)
             /\ \A hint \in PoseHints :
                   SceneManager_placeModel(sceneManager, hint).scene
                      = sceneManager']_vars

\* The model was placed under the crosshair while the tracker's plane centre
\* was off-centre and the rotation setting was 90 degrees.
C8_Witness ==
    /\ cmd.op = "place" /\ cmd.returned /\ Placed
    /\ arEngine.currentPose # Null /\ arEngine.currentPose.kind = "visual"
    /\ arEngine.currentPose.planeCenter = <<4, 4>>
    /\ Position = <<0, 0, -300>>
    /\ sceneManager.modelRotation = 90
    /\ sceneManager.modelGroup.rotationY = 15708

\* C9: with no model loaded a place command returns false and leaves the
\* scene as it was, at the level of the app and of SceneManager.placeModel.
C9_NoModelPlaceFails ==
    [][(cmd'.op = "place" /\ sceneManager.model = Null)
          => /\ ~cmd'.returned
             /\ sceneManager' = sceneManager
             /\ \A hint \in PoseHints :
                   SceneManager_placeModel(sceneManager, hint)
                      = [scene |-> sceneManager, returned |-> FALSE]]_vars

\* A place command failed with a pose available and no model loaded.
C9_Witness ==
    /\ cmd.op = "place" /\ ~cmd.returned
    /\ currentModel = Null /\ sceneManager.model = Null
    /\ arEngine.currentPose # Null
    /\ ~Placed /\ ~sceneManager.modelGroup.visible

\* C10: right after a reset the model is not placed, its position and its
\* rotation are zero, the model, the shadow plane and both indicators are
\* hidden, and the loaded model is still in the model group.
C10_ResetZeroesAnchor ==
    cmd.op = "reset"
       => /\ ~Placed
          /\ Position = Origin
          /\ sceneManager.placedPosition = Origin
          /\ sceneManager.modelGroup.rotationY = 0
          /\ sceneManager.modelRotation = 0
          /\ ~sceneManager.modelGroup.visible
          /\ ~sceneManager.shadowPlane.visible
          /\ ~sceneManager.groundIndicator.visible
          /\ ~sceneManager.gridHelper.visible
          /\ sceneManager.model = currentModel
          /\ (currentModel # Null
                => currentModel \in sceneManager.modelGroup.children)

(***************************************************************************)
(* Properties of the three trackers (checked under SpecTrackers).          *)
(***************************************************************************)

\* C11: processFrame of each backend hands its caller a TrackingResult,
\* whatever the input and the state: no exception leaves it.
C11_ProcessFrameReturns ==
    Ticked => /\ result # Null
              /\ result.isTracking \in BOOLEAN
              /\ (result.isTracking => result.pose # Null)

\* The capture of a frame threw while the visual tracker had confidence.
C11_Witness ==
    /\ arMode = "opencv" /\ Ticked /\ tick.outcome = "exception"
    /\ result = EmptyResult /\ arEngine.planeConfidence > 0

\* C12: a tick without input (a frame of zero width or height; no fix or no
\* target) returns isTracking = false and pose = null and leaves the tracker
\* as it was.
C12_NoInputTick ==
    [][(tick'.op = "processFrame"
        /\ tick'.outcome \in {"invalid", "nofix", "notarget"})
          => /\ result' # Null
             /\ result'.isTracking = FALSE
             /\ result'.pose = Null
             /\ arEngine' = arEngine]_vars

\* A frame of zero size reached the visual tracker while it was tracking.
C12_Witness ==
    /\ arMode = "opencv" /\ Ticked /\ tick.outcome = "invalid"
    /\ arEngine.planeConfidence > TrackingThreshold
    /\ arEngine.prevKeypoints > 0 /\ arEngine.currentPose # Null
    /\ ~result.isTracking /\ result.pose = Null

GeoUpdated ==
    /\ arMode = "location"
    /\ tick.op \in {"init", "updateLocation", "setTargetLocation"}
    /\ arEngine.currentLocation # Null
    /\ arEngine.targetLocation # Null

\* C17: after a location update or a target change with both a fix and a
\* target, isTracking is true exactly when accuracy <= 50 m and
\* 5 m <= distance <= 1000 m.
C17_GeoTrackingCondition ==
    GeoUpdated =>
        arEngine.isTracking =
            (/\ arEngine.currentLocation.accuracy <= 50
             /\ arEngine.distance.value >= 500
             /\ arEngine.distance.value <= 100000)

\* A target closer than the minimum was set with an accurate fix.
C17_Witness ==
    /\ GeoUpdated /\ tick.op = "setTargetLocation"
    /\ arEngine.currentLocation.accuracy = 5
    /\ arEngine.distance.value < 500
    /\ ~arEngine.isTracking

\* C18: with the fix (37.0, -122.0, accuracy 5 m) and the target
\* (37.001, -122.0, altitude 0) the tracker reports a distance of about
\* 111.2 m, a bearing of 0 degrees and isTracking = true.
C18_WalkThrough ==
    (/\ arMode = "location" /\ Ticked
     /\ arEngine.currentLocation # Null /\ arEngine.targetLocation # Null
     /\ arEngine.currentLocation.latitude = 37000000
     /\ arEngine.currentLocation.longitude = 0 - 122000000
     /\ arEngine.currentLocation.accuracy = 5
     /\ arEngine.targetLocation.latitude = 37001000
     /\ arEngine.targetLocation.longitude = 0 - 122000000)
       => /\ result.isTracking
          /\ result.gpsData.distance.value >= 11110
          /\ result.gpsData.distance.value <= 11130
          /\ result.gpsData.bearing.value = 0
          /\ result.pose # Null
          /\ result.pose.distance = result.gpsData.distance.value

\* The walk-through fix and target were given and a tick reported them.
C18_Witness ==
    /\ arMode = "location" /\ Ticked /\ tick.outcome = "tracking"
    /\ result.gpsData.currentLocation.accuracy = 5
    /\ result.gpsData.targetLocation.latitude = 37001000
    /\ result.gpsData.targetLocation.longitude = 0 - 122000000
    /\ result.gpsData.distance.value = 11119
    /\ result.gpsData.bearing.value = 0

(***************************************************************************)
(* Properties of the frame loops (checked under SpecApp).                  *)
(***************************************************************************)

FrameRan == cmd.op = "frame"

\* C13: every callback of a frame loop that runs while the app is
\* initialised (and the XR session is active) leaves the next callback
\* requested.
C13_NextCallbackRequested == FrameRan => cmd.next # "never" /\ rafPending

\* C14: every callback of a frame loop runs exactly one tracker tick and
\* exactly one render pass, and requests the next callback only after both.
C14_OneTickOneRenderThenNext ==
    FrameRan => cmd.ticks = 1 /\ cmd.renders = 1 /\ cmd.next = "after"

\* C16: the pose of the TrackingResult of a tracking tick, whichever tracker
\* produced it, goes through SceneManager.updateModelPose without an error.
C16_PoseConsumable ==
    (FrameRan /\ result.isTracking) =>
        ~SceneManager_updateModelPose(sceneManager, result.pose).threw

\* C19: on the visual and the geodetic path every pose a frame hands to the
\* scene manager has been passed through PoseKalmanFilter.filter.
C19_HandedPoseFiltered ==
    (FrameRan /\ arMode # "webxr" /\ cmd.handed) => cmd.filtered

(***************************************************************************)
(* Properties of dispose() (checked under SpecTrackers).                   *)
(***************************************************************************)

\* C20: dispose() of a tracker does not throw and leaves no OpenCV object,
\* session or GPS watch of the tracker unreleased, none having been dropped
\* without a release, and a dispose() right after a dispose() changes
\* nothing.
C20_DisposeReleasesOnce ==
    [][tick'.op = "dispose" =>
          /\ tick'.outcome = "done"
          /\ ~native'.leaked
          /\ \A f \in BufferNames : native'.mats[f] # "live"
          /\ (arMode = "webxr" => ~arEngine'.xrSession)
          /\ (arMode = "location" => arEngine'.watchId = Null)
          /\ (tick.op = "dispose" =>
                 native'.mats = native.mats /\ arEngine' = arEngine)]_vars

(***************************************************************************)
(* Properties of the startup (checked under SpecStartup).                  *)
(***************************************************************************)

\* C15: at most one backend is active: no engine that still has a window
\* listener, a GPS watch or a session is left behind when another one is
\* initialised, and once the app runs its backend is not replaced.
C15_AtMostOneBackend ==
    [][/\ \A o \in startup'.orphans : ~Live(o)
       /\ (startup.pc = "running" /\ startup'.pc = "running"
              => arMode' = arMode)]_vars

\* C25: when the requested backend is supported, its init() has succeeded
\* and the scene is set up, startup completes in that backend's mode (arMode
\* stays 'webxr' or 'location') and initOpenCVMode() is not entered.
C25_StartsInRequestedBackend ==
    [][(startup.pc \in {"xr_scene", "loc_scene"}
           /\ cmd'.op = "sceneInit" /\ cmd'.returned)
          => /\ startup'.pc = "running"
             /\ arMode' \in {"webxr", "location"}]_vars

(***************************************************************************)
(* Properties of the scene manager (checked under SpecScene).              *)
(***************************************************************************)

\* The ray through the screen point of the last pose misses the ground.
IndicatorRayMisses ==
    /\ sceneManager.lastPose # Null
    /\ IntersectGround(SetFromCamera(
           ScreenToNDC(sceneManager.lastPose.planeCenter),
           sceneManager.camera)) = Null

\* C21: when the ray through the screen anchor misses the ground, the
\* indicator update shows the indicator at the fixed fallback point and the
\* place command puts the model there.
C21_FallbackOnNoIntersection ==
    /\ (cmd.op = "updateModelPose" /\ ~Placed /\ IndicatorRayMisses)
          => /\ sceneManager.groundIndicator.visible
             /\ sceneManager.groundIndicator.position[1] = FallbackPosition[1]
             /\ sceneManager.groundIndicator.position[3] = FallbackPosition[3]
    /\ (cmd.op = "place" /\ cmd.returned
           /\ CrosshairGroundPoint(sceneManager.camera) = Null)
          => Position = FallbackPosition

(***************************************************************************)
(* The pose filter.                                                        *)
(***************************************************************************)

\* Distance of a filter's estimate from a measurement.
Error(f, measurement) ==
    IF f.x >= measurement THEN f.x - measurement ELSE measurement - f.x

\* C23: while a filter is fed the same measurement c on every call since its
\* construction or reset, the error |filter(c) - c| of a call is never larger
\* than the error before it, and it shrinks at least by the factor
\* R / (Q + R) per call, up to one rounding unit, so that it tends to 0.
C23_ConstantInputConverges ==
    [][(tick'.op = "filter" /\ tick'.same) =>
          \A a \in Axes :
             LET c  == Measurement(result'.pose, a)
                 e0 == Error(poseFilter[a], c)
                 e1 == Error(poseFilter'[a], c)
                 Q  == poseFilter[a].Q
                 R  == poseFilter[a].R
             IN  /\ Q > 0 /\ R > 0
                 /\ e1 <= e0
                 /\ e1 * (Q + R) <= e0 * R + (Q + R)]_vars

\* A slowly adapting filter (Q < R) fed the same pose MaxCalls times holds
\* every axis within a twentieth of the distance it started from.
C23_Witness ==
    /\ tick.op = "filter" /\ tick.same /\ tick.calls = MaxCalls
    /\ poseFilter["posX"].Q < poseFilter["posX"].R
    /\ result.pose.position[1] # 0
    /\ \A a \in Axes :
          Error(poseFilter[a], Measurement(result.pose, a)) * 20
             <= Error(KalmanFilterInit(1, 1), Measurement(result.pose, a))

\* C33: update(measurement) corrects both estimates: for a non-zero
\* innovation (measurement minus predicted value) a call of filter() changes
\* the velocity estimate v, and changes the value estimate x whenever the
\* correction K0 * innovation is at least one unit.
C33_UpdateCorrectsVelocity ==
    [][tick'.op = "filter" =>
          \A a \in Axes :
             LET p == KalmanFilter_predict(poseFilter[a])
                 y == Measurement(result'.pose, a) - p.x
                 S == p.P[1][1] + p.R
             IN  y # 0 =>
                    /\ poseFilter'[a].v # p.v
                    /\ (p.P[1][1] * y >= S \/ y < 0) => poseFilter'[a].x # p.x]_vars

\* C34: every value returned by filter(m) lies between the estimate the
\* filter held before the call and m, both included, for every axis of the
\* bank, both constructions (Q < R and Q > R) and every sequence of poses.
C34_FilterNeverOvershoots ==
    [][tick'.op = "filter" =>
          \A a \in Axes :
             LET x0 == poseFilter[a].x
                 m  == Measurement(result'.pose, a)
                 x1 == poseFilter'[a].x
             IN  /\ poseFilter[a].Q > 0 /\ poseFilter[a].R > 0
                 /\ Min(x0, m) <= x1 /\ x1 <= Max(x0, m)
                 /\ Measurement(cmd'.returned, a) = x1]_vars

\* The second call after a construction or reset, with a pose different from
\* the first: the estimate of posX moved from inside (0, 2000) towards -1500
\* and lies strictly between the two.
C34_Witness ==
    /\ tick.op = "filter" /\ tick.calls = 2 /\ ~tick.same
    /\ result.pose.position[1] = 0 - 1500
    /\ cmd.op = "filter" /\ cmd.returned.position[1] = poseFilter["posX"].x
    /\ 0 - 1500 < poseFilter["posX"].x /\ poseFilter["posX"].x < 2000

\* The frames on which trackFeatures() applies its distance filter, given a
\* previous frame with keypoints, and fewer than minInliers matches pass it.
\* The fields that the tick does not read after that are at their defaults.
RejectedFrames ==
    {in \in [size : {sz \in VideoSizes : sz[1] > 0 /\ sz[2] > 0},
             exc : {"none"},
             nkp : {KpFew, KpMany},
             near : {0, BucketSize}, mid : {0, BucketSize}, far : {0, BucketSize},
             matchThrows : {FALSE},
             homThrows : {FALSE}, ransacAccepts : {TRUE}, Hempty : {FALSE},
             center : {DefaultCenter}] :
        /\ in.near + in.mid + in.far <= in.nkp
        /\ in.near + in.mid + in.far >= MinInliers
        /\ GoodMatches(in) < MinInliers}

\* The engine holds a previous frame of the size of `in`, with keypoints.
HasPreviousFrame(e, in) ==
    /\ e.frame # Null /\ e.frame.rows = in.size[2] /\ e.frame.cols = in.size[1]
    /\ e.prevGrayFrame.rows > 0 /\ e.prevKeypoints > 0

C36_ReallocReleasesOld ==
    [][(IsVisual /\ tick'.op = "processFrame") =>
          /\ (tick'.outcome = "invalid" => arEngine'.frame = arEngine.frame)
          /\ (tick'.outcome # "invalid" => arEngine'.frame # Null)
          /\ (arEngine'.frame # arEngine.frame =>
                 /\ \A f \in {"frame", "grayFrame", "prevGrayFrame",
                               "cameraMatrix", "distCoeffs"} :
                       native'.mats[f] = "live"
                 /\ OverwrittenOnRealloc(native) = {})]_vars

\* The engine holds nothing that init() or startSession() opens.
Uninitialised(e) ==
    IF arMode = "webxr" THEN ~e.isSessionActive /\ ~e.xrSession
    ELSE ~e.isInitialized /\ e.watchId = Null

C38_LastRequestedWins ==
    (tick.pending = {} /\ tick.overlapped /\ ~tick.failed) =>
       /\ currentModel = tick.requested
       /\ sceneManager.model = tick.requested

\* Math.min(1.0, gpsAccuracyThreshold / accuracy) is 1.0 for every accuracy
\* from 0 up to the threshold.
WithinThresholdIsOne ==
    \A a \in 0..GpsAccuracyThreshold : GeoConfidence(a) = ConfidenceCap

\* C39: with gpsAccuracyThreshold unchanged, every pose the geodetic tracker
\* produces (the one it holds and the one it returns) has confidence exactly
\* 1.0.
C39_GeoConfidenceIsOne ==
    arMode = "location" =>
       /\ WithinThresholdIsOne
       /\ arEngine.currentPose # Null =>
             arEngine.currentPose.confidence = ConfidenceCap
       /\ result.pose # Null => result.pose.confidence = ConfidenceCap

\* A tick returns the pose computed from a fix of 5 m accuracy; and a pose
\* is still held when a later fix is poorer than the threshold.
C39_Witness ==
    /\ arMode = "location" /\ Ticked
    /\ result.pose # Null /\ result.pose.confidence = ConfidenceCap
    /\ arEngine.currentLocation.accuracy > GpsAccuracyThreshold
    /\ ~result.isTracking

(***************************************************************************)
(* Resets.                                                                 *)
(***************************************************************************)

\* The filter banks reachable with at most n calls of filter() after the
\* constructor.
RECURSIVE BanksAfter(_)
BanksAfter(n) ==
    IF n = 0
    THEN {PoseKalmanFilterInit(p[1], p[2]) : p \in NoisePairs}
    ELSE LET before == BanksAfter(n - 1)
         IN  before \cup {PoseKalmanFilter_filter(b, pose).bank :
                             b \in before, pose \in FilterPoses}
ReachableBanks == BanksAfter(MaxCalls)

\* reset() twice leaves every reachable bank as reset() once leaves it.
BanksResetOnce ==
    \A b \in ReachableBanks :
       PoseKalmanFilter_reset(PoseKalmanFilter_reset(b))
          = PoseKalmanFilter_reset(b)

\* C22: for the tracker in use (visual, hit-test or geodetic), the placement
\* module and every reachable pose filter bank, a reset applied to the state
\* a reset leaves gives that same state.
C22_ResetTwiceIsResetOnce ==
    /\ Engine_reset(Engine_reset(arEngine)) = Engine_reset(arEngine)
    /\ SceneManager_resetModel(SceneManager_resetModel(sceneManager))
          = SceneManager_resetModel(sceneManager)
    /\ BanksResetOnce

\* A tracker with a pose and a placed model, which a reset changes, and a
\* filter bank that a reset changes.
C22_Witness ==
    /\ arEngine.currentPose # Null
    /\ Engine_reset(arEngine) # arEngine
    /\ Placed
    /\ SceneManager_resetModel(sceneManager) # sceneManager
    /\ \E b \in ReachableBanks : PoseKalmanFilter_reset(b) # b

(***************************************************************************)
(* Bearings.                                                               *)
(***************************************************************************)

\* C24: calculateBearing returns a value in [0, 360) for every pair of
\* coordinates, 0 from (0, 0) to (1, 0) and 90 from (0, 0) to (0, 1).
C24_BearingRange ==
    cmd.op = "bearing" =>
       /\ 0 <= cmd.returned /\ cmd.returned < 360
       /\ (cmd.from = <<0, 0>> /\ cmd.to = <<MicroDegrees, 0>>)
             => cmd.returned = 0
       /\ (cmd.from = <<0, 0>> /\ cmd.to = <<0, MicroDegrees>>)
             => cmd.returned = 90

\* The bearing from (0, 0) to the point one degree east of it.
C24_Witness ==
    /\ cmd.op = "bearing"
    /\ cmd.from = <<0, 0>>
    /\ cmd.to = <<0, MicroDegrees>>
    /\ cmd.returned = 90

(***************************************************************************)
(* Properties of the OpenCV objects (checked under SpecObjects).           *)
(***************************************************************************)

C27_ResetNeverThrows ==
    (IsVisual /\ tick.op = "reset") => tick.outcome = "done"

(***************************************************************************)
(* The geodetic pose (checked under SpecTrackers).                         *)
(***************************************************************************)

\* C28: the pose a geodetic tick returns while tracking is the one computed
\* from the latest fix and the compass heading current at that tick:
\* updatePose() on the engine as the tick finds it gives the same pose.
C28_PoseUsesCurrentHeading ==
    (/\ arMode = "location" /\ Ticked
     /\ result.isTracking /\ result.pose # Null
     /\ arEngine.currentLocation # Null /\ arEngine.targetLocation # Null
     /\ arEngine.bearing # Null /\ arEngine.distance # Null)
        => result.pose = updatePose(arEngine).currentPose

(***************************************************************************)
(* Placement and tracking (checked under SpecApp).                         *)
(***************************************************************************)

C30_ResetClearsConfidence ==
    [][/\ (IsVisual /\ tick'.op = "reset") => arEngine'.planeConfidence = 0
       /\ (IsVisual /\ tick.op = "reset" /\ tick'.op = "processFrame")
             => ~result'.isTracking]_vars

(***************************************************************************)
(* Visibility of the placed model (checked under SpecApp).                 *)
(***************************************************************************)

\* C31: the model group or the shadow plane is visible only while the anchor
\* is placed.
C31_VisibleOnlyWhilePlaced ==
    (sceneManager.modelGroup.visible \/ sceneManager.shadowPlane.visible)
        => sceneManager.isModelPlaced

(***************************************************************************)
(* Results of the three trackers (checked under SpecTrackers).             *)
(***************************************************************************)

\* C32: every TrackingResult with isTracking = true carries a pose, for each
\* of the three backends.
C32_TrackingHasPose ==
    (Ticked /\ result.isTracking) => result.pose # Null

\* The geodetic tracker reports tracking on a tick after a reset and a new
\* target.
C32_Witness ==
    /\ arMode = "location" /\ Ticked
    /\ result.isTracking /\ result.pose # Null
    /\ arEngine.currentPose = result.pose

=============================================================================
